---- MODULE Spec2Model ----
(***************************************************************************)
(* Model of the server-selection wait queue and lifecycle of Topology      *)
(* (src/src/sdam/topology.ts), of the Server lifecycle it drives           *)
(* (src/src/sdam/server.ts) and of the retry wrapper executeOperation      *)
(* (operations/execute_operation, src/unnamed/part_000).                   *)
(***************************************************************************)
EXTENDS Integers, Sequences, FiniteSets, TLC

\* ------------------------------------------------------------------ bounds
\* addresses a deployment may consist of; "a" is the seed
Addr == {"a", "b"}
AddrOrder == <<"a", "b">>
\* Server instances the topology may create over its life
MaxServers == 2
\* selectServer calls (the one of connect() included) over a run
MaxReqs == 3

\* the topology option serverSelectionTimeoutMS (its default)
serverSelectionTimeoutMS == 30000
\* the values a caller of selectServer may pass in its options
TimeoutValues == {0, serverSelectionTimeoutMS}

\* ------------------------------------------------------------ lifecycle
STATE_CLOSED == "closed"
STATE_CLOSING == "closing"
STATE_CONNECTING == "connecting"
STATE_CONNECTED == "connected"

\* the table handed to makeStateMachine
stateTable ==
  [closed |-> {STATE_CLOSED, STATE_CONNECTING},
   connecting |-> {STATE_CONNECTING, STATE_CLOSING, STATE_CONNECTED, STATE_CLOSED},
   connected |-> {STATE_CONNECTED, STATE_CLOSING, STATE_CLOSED},
   closing |-> {STATE_CLOSING, STATE_CLOSED}]

\* ------------------------------------------------- server descriptions
\* no topologyVersion reported
NoVersion == [processId |-> "none", counter |-> 0]

\* new ServerDescription(address): type Unknown, no hosts, no topologyVersion,
\* no $clusterTime (0)
UnknownSD ==
  [type |-> "Unknown", hosts |-> {}, compatible |-> TRUE,
   topologyVersion |-> NoVersion, clusterTime |-> 0,
   setVersion |-> 0, electionId |-> 0]

\* no ismaster reply; a reply is reduced to the fields parseServerType
\* reads, msg and setName are "" while the reply has none
NoReply ==
  [present |-> FALSE, ok |-> 0, isreplicaset |-> FALSE, msg |-> "", setName |-> "",
   hidden |-> FALSE, ismaster |-> FALSE, secondary |-> FALSE, arbiterOnly |-> FALSE]

\* a ServerDescription with every field of the class that equals may read:
\* a primary of the set "rs"; electionId and logicalSessionTimeoutMinutes
\* are 0 and error is "none" while undefined
PrimaryDescription ==
  [type |-> "RSPrimary", hosts |-> <<"a", "b">>, passives |-> <<>>, arbiters |-> <<>>,
   tags |-> [k \in {"dc"} |-> "east"], error |-> "none",
   topologyVersion |-> [processId |-> "p", counter |-> 1],
   minWireVersion |-> 6, maxWireVersion |-> 9,
   roundTripTime |-> 1, lastUpdateTime |-> 1, lastWriteDate |-> 1,
   primary |-> "a", setName |-> "rs", setVersion |-> 1, electionId |-> 1,
   logicalSessionTimeoutMinutes |-> 30]

\* no function of server_description.ts was called
NoProbe ==
  [fn |-> "none", done |-> FALSE, reply |-> NoReply,
   lhs |-> PrimaryDescription, rhs |-> PrimaryDescription,
   ltv |-> NoVersion, rtv |-> NoVersion,
   type |-> "none", equal |-> FALSE, order |-> 0, reversed |-> 0]

\* descriptions the Server at addr may publish: Unknown, or a primary
\* reporting itself alone or every address as hosts, the latter also with a
\* wire version range the driver does not support
IncomingSD(addr) ==
  {UnknownSD,
   [UnknownSD EXCEPT !.type = "RSPrimary", !.hosts = {addr}],
   [UnknownSD EXCEPT !.type = "RSPrimary", !.hosts = Addr],
   [UnknownSD EXCEPT !.type = "RSPrimary", !.hosts = Addr, !.compatible = FALSE]}

\* TopologyDescription constructor: the compatibility error is recomputed
\* from the known (non-Unknown) servers
MakeDescription(type, servers, maxSetVersion, maxElectionId) ==
  [type |-> type,
   servers |-> servers,
   maxSetVersion |-> maxSetVersion,
   maxElectionId |-> maxElectionId,
   compatibilityError |->
     \E a \in DOMAIN servers :
       servers[a].type # "Unknown" /\ ~servers[a].compatible]

\* the topology type after an update: Sharded once a Mongos was observed,
\* ReplicaSetWithPrimary while a primary is known, ReplicaSetNoPrimary once
\* a replica set was seen and no primary is known, Unknown otherwise
topologyType(prev, sd, srvs) ==
  IF prev = "Sharded" \/ sd.type = "Mongos" THEN "Sharded"
  ELSE IF \E a \in DOMAIN srvs : srvs[a].type = "RSPrimary" THEN "ReplicaSetWithPrimary"
  ELSE IF prev \in {"ReplicaSetWithPrimary", "ReplicaSetNoPrimary"} THEN "ReplicaSetNoPrimary"
  ELSE "Unknown"

\* every primary that reports a setVersion and an electionId is trusted
isStalePrimary_never(d, sd) == FALSE

\* a primary whose setVersion or electionId is lower than the highest seen;
\* 0 stands for a value the reply does not carry
isStalePrimary(d, sd) ==
  /\ sd.type = "RSPrimary"
  /\ sd.setVersion # 0
  /\ sd.electionId # 0
  /\ sd.setVersion < d.maxSetVersion \/ sd.electionId < d.maxElectionId

\* TopologyDescription.update: replace the entry of the address, by Unknown
\* when it is a stale primary; a primary's host list adds untracked addresses
\* as Unknown and drops the others; a trusted primary's setVersion and
\* electionId become the highest seen
update(d, addr, sd) ==
  LET stale == isStalePrimary(d, sd)
      new == IF stale THEN UnknownSD ELSE sd
      replaced == [a \in DOMAIN d.servers |-> IF a = addr THEN new ELSE d.servers[a]]
      kept == IF new.type = "RSPrimary" THEN new.hosts ELSE DOMAIN replaced
      srvs == [a \in kept |-> IF a \in DOMAIN replaced THEN replaced[a] ELSE UnknownSD]
      elected == new.type = "RSPrimary" /\ new.setVersion # 0 /\ new.electionId # 0
  IN MakeDescription(topologyType(d.type, new, srvs), srvs,
                     IF elected THEN new.setVersion ELSE d.maxSetVersion,
                     IF elected THEN new.electionId ELSE d.maxElectionId)

\* every address is taken for tracked
hasServer_any(d, addr) == TRUE

hasServer(d, addr) == addr \in DOMAIN d.servers

\* ------------------------------------------------------------ selectors
\* ServerSelector functions a caller may pass to selectServer
Selectors == {"primary", "any", "throws"}

SelectorThrows(sel) == sel = "throws"

\* serverSelector(topology.description, serverDescriptions), as addresses
Selected(sel, d) ==
  CASE sel = "primary" -> {a \in DOMAIN d.servers : d.servers[a].type \in {"RSPrimary", "Mongos"}}
    [] sel = "any" -> DOMAIN d.servers
    [] OTHER -> {}

\* ---------------------------------------------------------------- state
VARIABLES
  state,       \* topology.s.state
  description, \* topology.s.description
  servers,     \* topology.s.servers: address -> index of the Server instance
  instances,   \* every Server ever constructed, in construction order
  requests,    \* the ServerSelectionRequest objects still referenced by the
               \* wait queue or by a pending timer, by request number
  issued,      \* selectServer calls made so far; a request's number is its rank
  callbacks,   \* by request number: how often its callback was invoked and with
               \* what, for the requests still referenced and those the last
               \* step completed
  called,      \* the selector of the selectServer call the last step made
  waitQueue,   \* topology[kWaitQueue]: request numbers
  closePhase,  \* progress of the close() in flight
  closePending,\* Servers whose destroy callback close() still waits for
  closeCallback, \* whether the close() in flight holds a user callback
  closeObserved, \* what the close() callback the last step invoked found
  clusterTime, \* topology.s.clusterTime: its timestamp, 0 while undefined
  transaction, \* session.transaction of the one ClientSession callers pass:
               \* the pinned Server (0: none) and whether it is active
  pass,        \* whether the last step ran processWaitQueue, and the Servers
               \* it scheduled a requestCheck on
  incoming,    \* the address and the description the last step handed to
               \* serverUpdateHandler, where the model follows them
  attempted,   \* the transitions stateTransition(topology, ...) was called
               \* for by the last step
  credentials, \* whether topology.s.credentials is set
  pings        \* the { ping: 1 } commands of connect() still in flight

topoVars == <<state, description, servers, instances, requests, issued, callbacks, called,
              waitQueue, closePhase, closePending, closeCallback, closeObserved,
              clusterTime, transaction, pass, incoming, attempted, credentials, pings>>

\* one call of executeWithServerSelection (execute_operation)
VARIABLES
  operation,   \* the operation: its aspects, read preference, retry getters
  session,     \* the ClientSession: present, in a transaction, txnNumber
  options,     \* topology.s.options: retryReads, retryWrites
  pc,          \* where the call stands
  handler,     \* the callback handed to the operation.execute in flight
  selected,    \* the Servers selectServer has returned so far, in order
  errors,      \* the errors operation.execute has returned so far, in order
  executes,    \* calls of operation.execute
  outcome,     \* what the caller's callback got, and how often
  owner,       \* executeOperation started the session itself (implicit session)
  ended,       \* calls of session.endSession made by executeOperation
  inTry,       \* control is still inside the try block of executeOperation
               \* whose catch block ends the session the call owns
  retried,     \* the failure callbackWithRetry is retrying: a network timeout,
               \* another network error, or no network error
  retryPick    \* the Server the retry's selectServer returned: the one of
               \* the first attempt or another

execVars == <<operation, session, options, pc, handler, selected, errors, executes, outcome,
              owner, ended, inTry, retried, retryPick>>

\* one Server (server.ts) used through its public methods
VARIABLES
  sState,       \* server.s.state
  sMonitor,     \* whether the Monitor of the Server runs
  sPool,        \* server.s.pool: its generation, the pool.close calls whose
                \* callback is still to come, and whether close was called
  sDescription, \* the type of the description the Server published last
  sTopologyVersion, \* the topologyVersion of that description
  sConns,       \* by generation: the connections checked out for operations
                \* in flight
  sEvent        \* what the last step's call or callback did

srvVars == <<sState, sMonitor, sPool, sDescription, sTopologyVersion, sConns, sEvent>>

\* one ConnectionPool used through checkOut, checkIn and clear
VARIABLES
  connectionPool, \* the pool: its generation and its maxPoolSize
  connections,   \* by connection: idle, checked out or closed, and the
                 \* generation it is tagged with
  holds,         \* by caller: the connection its checkOut returned and it has
                 \* not checked in yet
  poolWaitQueue, \* the callers blocked in checkOut, oldest first
  poolEvent      \* what the last step's call did

poolVars == <<connectionPool, connections, holds, poolWaitQueue, poolEvent>>

\* one call of a function of server_description.ts
VARIABLES
  probe          \* the function called, its arguments and, once it returned,
                 \* its value

sdVars == <<probe>>

vars == <<topoVars, execVars, srvVars, poolVars, sdVars>>

Range(f) == {f[x] : x \in DOMAIN f}

\* stateTransition(target, newState) of makeStateMachine
legalTransition(from, to) == to \in stateTable[from]


\* ------------------------------------------------------- Server (server.ts)
\* new Server(...) followed by server.connect(): closed -> connecting, the
\* Monitor is started; the topology listens for its descriptions
createAndConnectServer(addr, sd) ==
  [address |-> addr, state |-> STATE_CONNECTING, listening |-> TRUE,
   monitor |-> TRUE, destroyed |-> FALSE]

\* Server.destroy: nothing but the callback when already closed; otherwise
\* closing, the Monitor is closed and the pool starts closing
destroy(inst) ==
  IF inst.state = STATE_CLOSED
  THEN [inst EXCEPT !.destroyed = TRUE]
  ELSE [inst EXCEPT !.state = STATE_CLOSING, !.monitor = FALSE, !.destroyed = TRUE]

\* destroyServer: the topology's listeners are removed, then server.destroy
destroyServer(inst) == destroy([inst EXCEPT !.listening = FALSE])

\* connectServers: a fresh Server per known description; the map is replaced
connectServers(d, insts) ==
  LET addrs == SelectSeq(AddrOrder, LAMBDA a : a \in DOMAIN d.servers)
      created == [k \in 1..Len(addrs) |-> createAndConnectServer(addrs[k], d.servers[addrs[k]])]
      index(a) == CHOOSE k \in 1..Len(addrs) : addrs[k] = a
  IN [instances |-> insts \o created,
      servers |-> [a \in DOMAIN d.servers |-> Len(insts) + index(a)]]

\* updateServers(topology, incomingServerDescription)
updateServers(d, srvMap, insts) ==
  LET insts1 == insts
      addrs == SelectSeq(AddrOrder, LAMBDA a : a \in DOMAIN d.servers /\ a \notin DOMAIN srvMap)
      created == [k \in 1..Len(addrs) |-> createAndConnectServer(addrs[k], d.servers[addrs[k]])]
      index(a) == CHOOSE k \in 1..Len(addrs) : addrs[k] = a
      removed == {srvMap[a] : a \in DOMAIN srvMap \ DOMAIN d.servers}
      insts2 == [i \in DOMAIN insts1 |->
                   IF i \in removed THEN destroyServer(insts1[i]) ELSE insts1[i]]
  IN [instances |-> insts2 \o created,
      servers |-> [a \in DOMAIN d.servers |->
                     IF a \in DOMAIN srvMap THEN srvMap[a] ELSE Len(insts) + index(a)]]

\* ------------------------------------------------- wait queue (topology.ts)
\* a new ServerSelectionRequest; the timer is armed only for a non-zero
\* serverSelectionTimeoutMS
newRequest(kind, sel, timeoutMS, sess) ==
  [kind |-> kind, selector |-> sel, transaction |-> sess,
   timer |-> IF timeoutMS # 0 THEN "armed" ELSE "none",
   cancelled |-> FALSE]

\* a selectServer call whose callback is not invoked yet
newCall == [calls |-> 0, result |-> "none", server |-> 0, session |-> FALSE]

NoCall == "none"

\* the last step did not run processWaitQueue
NoPass == [ran |-> FALSE, checks |-> {}]

\* the last step handed no description to serverUpdateHandler, or one the
\* model does not follow
NoDescription == [address |-> "none", description |-> UnknownSD]

\* waitQueueMember.callback(err, server)
invoke(cb, result, server) ==
  [cb EXCEPT !.calls = @ + 1, !.result = result, !.server = server]

\* the timer is left pending
clearTimer_kept(req) == req

\* clearTimeout(waitQueueMember.timer) when a timer is set
clearTimer(req) == IF req.timer = "armed" THEN [req EXCEPT !.timer = "cleared"] ELSE req

\* the request objects something still refers to: the queue or a timer
reachable(rq, q) ==
  [r \in {x \in DOMAIN rq : x \in Range(q) \/ rq[x].timer = "armed"} |-> rq[r]]

callsBefore(r) == IF r \in DOMAIN callbacks THEN callbacks[r].calls ELSE 0

\* the callback records of the requests still referenced and of those whose
\* callback this step invoked; no callback of another request runs again
retain(cbs, rq) ==
  [r \in {x \in DOMAIN cbs : x \in DOMAIN rq \/ cbs[x].calls > callsBefore(x)} |-> cbs[r]]

\* the queue and the records with the request of a new selectServer call
enqueue(kind, sel, timeoutMS, sess) ==
  LET id == issued + 1
  IN [requests |-> [r \in DOMAIN requests \cup {id} |->
                      IF r = id THEN newRequest(kind, sel, timeoutMS, sess) ELSE requests[r]],
      callbacks |-> [r \in DOMAIN callbacks \cup {id} |->
                       IF r = id THEN [newCall EXCEPT !.session = sess] ELSE callbacks[r]],
      waitQueue |-> Append(waitQueue, id)]

\* the loop runs once: only the first member is drained
drainWaitQueue_first(rq, cbs, q, err) ==
  IF q = <<>> THEN [requests |-> rq, callbacks |-> cbs, waitQueue |-> q]
  ELSE [requests |-> [rq EXCEPT ![Head(q)] = IF @.timer = "armed"
                                             THEN [@ EXCEPT !.timer = "cleared"] ELSE @],
        callbacks |-> [r \in DOMAIN cbs |->
                         IF r = Head(q) /\ ~rq[r].cancelled
                         THEN [cbs[r] EXCEPT !.calls = @ + 1, !.result = err, !.server = 0]
                         ELSE cbs[r]],
        waitQueue |-> Tail(q)]

\* drainWaitQueue(queue, err): every member is shifted, its timer cleared,
\* and its callback invoked with err unless the member is cancelled
drainWaitQueue(rq, cbs, q, err) ==
  [requests |-> [r \in DOMAIN rq |-> IF r \in Range(q) THEN clearTimer(rq[r]) ELSE rq[r]],
   callbacks |-> [r \in DOMAIN cbs |->
                    IF r \in Range(q) /\ ~rq[r].cancelled
                    THEN invoke(cbs[r], err, 0) ELSE cbs[r]],
   waitQueue |-> <<>>]

\* the empty selection is not told from a match
noneSelected_never(sel, d) == FALSE

\* selectedDescriptions.length === 0
noneSelected(sel, d) == Selected(sel, d) = {}

\* randomSelection: the picks a pass may make, one address per queued
\* request among those its selector returns
randomSelection(rq, q, d) ==
  {choice \in [Range(q) -> Addr] :
     \A r \in Range(q) :
       IF Selected(rq[r].selector, d) # {}
       THEN choice[r] \in Selected(rq[r].selector, d)
       ELSE choice[r] = AddrOrder[1]}

\* isSharded && transaction && transaction.isActive && selectedServer
pins(d, txn, server) == d.type = "Sharded" /\ txn.isActive /\ server # 0

\* one pass of processWaitQueue over the members queued at its start
\* if (topology[kWaitQueue].length > 0): server.requestCheck() is scheduled
\* for every Server of the map
scheduleServerCheck(q, srvMap) == IF Len(q) > 0 THEN Range(srvMap) ELSE {}

\* a member that stays is put back at the front of the queue
remaining_unshifted(q, staying) ==
  LET kept == SelectSeq(q, LAMBDA r : r \in staying)
  IN [i \in 1..Len(kept) |-> kept[Len(kept) + 1 - i]]

\* the queue after a pass over q: every member is shifted off the front and
\* those that stay are pushed at the back, in the order they are met
remaining(q, staying) == SelectSeq(q, LAMBDA r : r \in staying)

\* the transitions the callbacks of connect() ask for when a pass completes
\* the requests rs of connect() calls with a Server: the first from the
\* state st, the others from connected
connectedBy(st, rs) ==
  IF rs = {} THEN {}
  ELSE {[from |-> st, to |-> STATE_CONNECTED]} \cup
       (IF Cardinality(rs) > 1
        THEN {[from |-> STATE_CONNECTED, to |-> STATE_CONNECTED]} ELSE {})

processWaitQueue(st, d, srvMap, rq, cbs, q, choice, txn) ==
  IF st = STATE_CLOSED
  THEN LET dr == drainWaitQueue(rq, cbs, q, "TopologyIsClosed")
       IN [requests |-> dr.requests, callbacks |-> dr.callbacks,
           waitQueue |-> dr.waitQueue, state |-> st, transaction |-> txn,
           pass |-> [ran |-> TRUE, checks |-> {}], attempted |-> {}, pings |-> 0]
  ELSE
    LET throws(r) == SelectorThrows(rq[r].selector)
        matched(r) == ~throws(r) /\ ~noneSelected(rq[r].selector, d)
        stays(r) == ~rq[r].cancelled /\ ~throws(r) /\ ~matched(r)
        done(r) == r \in Range(q) /\ ~rq[r].cancelled /\ (throws(r) \/ matched(r))
        selectedServer(r) == IF choice[r] \in DOMAIN srvMap THEN srvMap[choice[r]] ELSE 0
        connects == {r \in Range(q) : done(r) /\ matched(r) /\ rq[r].kind = "connect"}
        connectDone == connects # {} /\ ~credentials
        pinners == SelectSeq(q, LAMBDA r : /\ done(r) /\ matched(r) /\ rq[r].transaction
                                           /\ pins(d, txn, selectedServer(r)))
    IN [requests |-> [r \in DOMAIN rq |-> IF done(r) THEN clearTimer(rq[r]) ELSE rq[r]],
        callbacks |->
          [r \in DOMAIN cbs |->
             IF r \in DOMAIN rq /\ done(r)
             THEN IF throws(r) THEN invoke(cbs[r], "selectorError", 0)
                  ELSE invoke(cbs[r], "server", selectedServer(r))
             ELSE cbs[r]],
        waitQueue |-> remaining(q, {r \in Range(q) : stays(r)}),
        state |-> IF connectDone /\ legalTransition(st, STATE_CONNECTED)
                  THEN STATE_CONNECTED ELSE st,
        transaction |-> IF pinners = <<>> THEN txn
                        ELSE [txn EXCEPT !.server = selectedServer(pinners[Len(pinners)])],
        pass |-> [ran |-> TRUE, checks |-> scheduleServerCheck(SelectSeq(q, stays), srvMap)],
        attempted |-> IF credentials THEN {} ELSE connectedBy(st, connects),
        pings |-> IF credentials THEN Cardinality(connects) ELSE 0]

NoServers == [a \in {} |-> 0]

\* resolveClusterTime(topology, $clusterTime): the incoming cluster time is
\* stored when none is stored yet or when its timestamp is greater
resolveClusterTime(stored, received) ==
  IF stored = 0 \/ received > stored THEN received ELSE stored

\* Topology.serverUpdateHandler(serverDescription) for the address addr
serverUpdateHandler(addr, sd, choice) ==
  LET same == [description |-> description, servers |-> servers,
               instances |-> instances, requests |-> requests,
               callbacks |-> callbacks, waitQueue |-> waitQueue, state |-> state,
               clusterTime |-> clusterTime, transaction |-> transaction,
               pass |-> NoPass, attempted |-> {}, pings |-> 0]
      ct == IF sd.clusterTime # 0 THEN resolveClusterTime(clusterTime, sd.clusterTime)
            ELSE clusterTime
      d2 == update(description, addr, sd)
      us == updateServers(d2, servers, instances)
      p == IF Len(waitQueue) > 0
           THEN processWaitQueue(state, d2, us.servers, requests, callbacks, waitQueue,
                                 choice, transaction)
           ELSE [requests |-> requests, callbacks |-> callbacks,
                 waitQueue |-> waitQueue, state |-> state, transaction |-> transaction,
                 pass |-> NoPass, attempted |-> {}, pings |-> 0]
  IN IF ~hasServer(description, addr) THEN same
     ELSE IF d2.compatibilityError
          THEN [same EXCEPT !.description = d2, !.clusterTime = ct]
     ELSE [description |-> d2, servers |-> us.servers, instances |-> us.instances,
           requests |-> p.requests, callbacks |-> p.callbacks,
           waitQueue |-> p.waitQueue, state |-> p.state,
           clusterTime |-> ct, transaction |-> p.transaction, pass |-> p.pass,
           attempted |-> p.attempted, pings |-> p.pings]

\* a ClientSession outside a transaction, with no pinned Server
NoTransaction == [server |-> 0, isActive |-> FALSE]

\* the pinned Server is never used
bypasses_never(d, txn) == FALSE

\* isSharded && transaction && transaction.server
bypasses(d, txn) == d.type = "Sharded" /\ txn.server # 0

\* no close() callback is invoked
NothingObserved == [state |-> "none", destroyed |-> TRUE]

\* what a close() callback finds when it is invoked: the lifecycle state and
\* whether every Server of the map is destroyed (Monitor stopped, pool closed)
observe(st, srvMap, insts) ==
  [state |-> st,
   destroyed |-> \A i \in Range(srvMap) : ~insts[i].monitor /\ insts[i].state = STATE_CLOSED]

\* --------------------------------- executeOperation (execute_operation)
MMAPv1_RETRY_WRITES_ERROR_CODE == 20

\* the aspect sets the operations declare with defineAspects
OperationAspects ==
  {{}, {"READ_OPERATION"}, {"WRITE_OPERATION"},
   {"READ_OPERATION", "RETRYABLE"}, {"WRITE_OPERATION", "RETRYABLE"}}

hasAspect(op, aspect) == aspect \in op.aspects

\* an operation; the constructor forces ReadPreference.primary on writes
Operations ==
  {op \in [aspects : OperationAspects, primary : BOOLEAN,
            canRetryRead : BOOLEAN, canRetryWrite : BOOLEAN] :
     hasAspect(op, "WRITE_OPERATION") => op.primary}

\* no session, or a session in or outside a transaction
Sessions ==
  {ss \in [present : BOOLEAN, inTransaction : BOOLEAN, txnNumber : {0}] :
     ss.inTransaction => ss.present}

OptionValues == {"true", "false", "undefined"}

\* the Servers selection may return: max wire version, whether the server
\* reports logicalSessionTimeoutMinutes, and its type
SelectableServers ==
  [maxWireVersion : {5, 6}, logicalSessionTimeoutMinutes : {0, 30},
   type : {"Standalone", "RSPrimary"}]

\* the errors operation.execute may return: classified retryable by
\* isRetryableError, labelled RetryableWriteError, with the given code and
\* an errmsg that mentions "Transaction numbers" or not
ExecuteErrors ==
  [retryable : BOOLEAN, label : BOOLEAN,
   code : {MMAPv1_RETRY_WRITES_ERROR_CODE, 91}, transactionNumbers : BOOLEAN]

\* what the failure of the attempt was for the connection: no network error,
\* a network timeout after the handshake, or another network error
NetworkFailures == {"no", "timeout", "other"}

\* the Servers the selectServer of the retry may return: the Server of the
\* first attempt when no other matches ("first"), the same Server picked at
\* random among several that match ("firstAmongOthers"), or another Server.
\* A network error that is no timeout has marked the first Server Unknown
\* before the selection runs, so that selection cannot pick it among others.
RetryPicks(failure) ==
  IF failure = "other" THEN {"first", "other"}
  ELSE {"first", "firstAmongOthers", "other"}

\* the error of the retry goes to the caller's callback as it is: nothing
\* reads its fields, and it is recorded without them
Unread ==
  [retryable |-> FALSE, label |-> FALSE, code |-> 91, transactionNumbers |-> FALSE]

\* no error is wrapped in the error the caller gets
NoOriginal == [retryable |-> FALSE, label |-> FALSE, code |-> 0, transactionNumbers |-> FALSE]

NoOutcome == [calls |-> 0, error |-> "none", result |-> FALSE, originalError |-> NoOriginal]

\* the wire version of the server is not looked at
supportsRetryableReads_any(server) == TRUE

supportsRetryableReads(server) == server.maxWireVersion >= 6

supportsRetryableWrites(server) ==
  /\ server.maxWireVersion >= 6
  /\ server.logicalSessionTimeoutMinutes # 0
  /\ server.type # "Standalone"

\* the RetryableWriteError label is not looked at
shouldRetryWrite_any(err) == TRUE

shouldRetryWrite(err) == err.label

\* the legacy error is retried like any other
isMMAPv1RetryWritesError_never(err) == FALSE

\* err.code === MMAPv1_RETRY_WRITES_ERROR_CODE && err.errmsg.match(/Transaction numbers/)
isMMAPv1RetryWritesError(err) ==
  err.code = MMAPv1_RETRY_WRITES_ERROR_CODE /\ err.transactionNumbers

\* the transaction number is left as it is
incrementsTransactionNumber_never(hasWriteAspect, willRetryWrite) == FALSE

\* every retry-armed operation increments the transaction number
incrementsTransactionNumber_always(hasWriteAspect, willRetryWrite) == TRUE

\* if (hasWriteAspect && willRetryWrite): willRetryWrite is set on the
\* operation's options and session.incrementTransactionNumber() is called
incrementsTransactionNumber(hasWriteAspect, willRetryWrite) ==
  hasWriteAspect /\ willRetryWrite

\* the retry is handed callbackWithRetry again
retryHandler_again == "callbackWithRetry"

\* the callback operation.execute gets on the retry
retryHandler == "callback"

\* session.endSession() of executeOperation, for the session it owns
endSession(own, n) == IF own THEN n + 1 ELSE n

\* the callback executeOperation hands to executeWithServerSelection: the
\* session it owns is ended, then callback(err, result) of the caller runs
deliver(error, result) ==
  /\ ended' = endSession(owner, ended)
  /\ outcome' = [calls |-> outcome.calls + 1, error |-> error, result |-> result,
                 originalError |-> NoOriginal]
  /\ pc' = "done"

\* callback(new MongoError({ message, errmsg, originalError: err }))
deliverOriginal(error, err) ==
  /\ ended' = endSession(owner, ended)
  /\ outcome' = [calls |-> outcome.calls + 1, error |-> error, result |-> FALSE,
                 originalError |-> err]
  /\ pc' = "done"

\* operation.execute throws: the catch block of executeOperation ends the
\* session it owns and rethrows, if the throw happens under its try block
thrown(sync) ==
  /\ ended' = IF sync THEN endSession(owner, ended) ELSE ended
  /\ pc' = "thrown"
  /\ UNCHANGED outcome

ExecIdle ==
  /\ operation = CHOOSE op \in Operations : op.aspects = {} /\ ~op.primary
                    /\ ~op.canRetryRead /\ ~op.canRetryWrite
  /\ session = [present |-> FALSE, inTransaction |-> FALSE, txnNumber |-> 0]
  /\ options = [retryReads |-> "undefined", retryWrites |-> "undefined"]
  /\ pc = "idle"
  /\ handler = "none"
  /\ selected = <<>>
  /\ errors = <<>>
  /\ executes = 0
  /\ outcome = NoOutcome
  /\ owner = FALSE
  /\ ended = 0
  /\ inTry = FALSE
  /\ retried = "none"
  /\ retryPick = "none"

\* ------------------------------------------------ one Server (server.ts)
\* pool generations the model follows
MaxGen == 2
\* operations in flight on the Server at a time
MaxConns == 2
\* pool.close calls in progress at a time
MaxCloses == 2

\* the table handed to makeStateMachine in server.ts
serverStateTable ==
  [closed |-> {STATE_CLOSED, STATE_CONNECTING},
   connecting |-> {STATE_CONNECTING, STATE_CLOSING, STATE_CONNECTED, STATE_CLOSED},
   connected |-> {STATE_CONNECTED, STATE_CLOSING, STATE_CLOSED},
   closing |-> {STATE_CLOSING, STATE_CLOSED}]

\* nothing was called in the last step
NoEvent ==
  [op |-> "none", err |-> "none", stale |-> FALSE, unknown |-> FALSE,
   cleared |-> FALSE, checkout |-> FALSE, calls |-> 0, result |-> "none",
   check |-> FALSE, topologyVersion |-> NoVersion, old |-> FALSE,
   eligible |-> FALSE, labelled |-> FALSE]

\* new Server(topology, description, options)
ServerNew ==
  /\ sState = STATE_CLOSED
  /\ sMonitor = FALSE
  /\ sPool = [generation |-> 0, closing |-> 0, closed |-> FALSE]
  /\ sDescription = "Unknown"
  /\ sTopologyVersion = NoVersion
  /\ sConns = [g \in 0..MaxGen |-> 0]
  /\ sEvent = NoEvent

\* the methods that run an operation on the Server
ServerOperations == {"command", "query", "getMore", "killCursors"}

\* what an operation's connection may return: no error, a network error or
\* a network timeout after or before the handshake completed, a state
\* change error (not master, node is recovering), one of a node shutting
\* down, and any other error
OperationErrors ==
  {"none", "network", "networkTimeout", "networkBeforeHandshake",
   "networkTimeoutBeforeHandshake", "stateChange", "nodeShuttingDown", "other"}

\* err instanceof MongoNetworkError
isNetworkError(err) ==
  err \in {"network", "networkTimeout", "networkBeforeHandshake",
           "networkTimeoutBeforeHandshake"}

\* err instanceof MongoNetworkTimeoutError
isNetworkTimeoutError(err) == err \in {"networkTimeout", "networkTimeoutBeforeHandshake"}

isNetworkErrorBeforeHandshake(err) ==
  err \in {"networkBeforeHandshake", "networkTimeoutBeforeHandshake"}

isSDAMUnrecoverableError(err) == err \in {"stateChange", "nodeShuttingDown"}

\* only the closed state is refused
rejects_closedOnly(st) == st = STATE_CLOSED

\* this.s.state === STATE_CLOSING || this.s.state === STATE_CLOSED
rejects(st) == st \in {STATE_CLOSING, STATE_CLOSED}

\* every network error resets the server
resetsServer_always(err) == isNetworkError(err)

\* !(err instanceof MongoNetworkTimeoutError) || isNetworkErrorBeforeHandshake(err)
resetsServer(err) == ~isNetworkTimeoutError(err) \/ isNetworkErrorBeforeHandshake(err)

\* the Monitor keeps running
closeMonitor_kept(running) == running

\* this[kMonitor].close() in Server.destroy
closeMonitor(running) == FALSE

\* pool.clear(): the generation is incremented
clear(pool) == [pool EXCEPT !.generation = @ + 1]

\* no connection is taken for stale
connectionIsStale_never(pool, generation) == FALSE

\* connectionIsStale(pool, connection)
connectionIsStale(pool, generation) == generation # pool.generation

\* ------------------------------------------------- ConnectionPool (cmap)
\* connections the pool opens over its life
MaxPoolConns == 3
\* concurrent callers of checkOut
MaxCallers == 3
\* the largest maxPoolSize
MaxPoolSize == 2
\* pool.clear() calls
MaxClears == 2

ConnIds == 1..MaxPoolConns
Callers == 1..MaxCallers

\* a connection the pool has not opened yet
Unopened == [state |-> "unopened", generation |-> 0]

\* no pool method was called in the last step
NoPoolEvent == [op |-> "none", caller |-> 0, conn |-> 0, served |-> 0, returned |-> 0]

\* a pool nothing is asked of
PoolIdle ==
  /\ connectionPool = [generation |-> 0, maxPoolSize |-> 1]
  /\ connections = [k \in ConnIds |-> Unopened]
  /\ holds = [c \in Callers |-> 0]
  /\ poolWaitQueue = <<>>
  /\ poolEvent = NoPoolEvent

\* new ConnectionPool(options)
PoolNew ==
  /\ connectionPool \in [generation : {0}, maxPoolSize : 1..MaxPoolSize]
  /\ connections = [k \in ConnIds |-> Unopened]
  /\ holds = [c \in Callers |-> 0]
  /\ poolWaitQueue = <<>>
  /\ poolEvent = NoPoolEvent

\* the connections the pool owns: idle or checked out
totalConnections(conns) == {k \in ConnIds : conns[k].state \in {"idle", "checkedOut"}}

\* the idle connections a checkOut may return
available(p, conns) ==
  {k \in ConnIds : conns[k].state = "idle" /\ ~connectionIsStale(p, conns[k].generation)}

\* an invalidated idle connection is closed when the pool next looks at it
discardStale(p, conns) ==
  [k \in ConnIds |->
     IF conns[k].state = "idle" /\ connectionIsStale(p, conns[k].generation)
     THEN [conns[k] EXCEPT !.state = "closed"]
     ELSE conns[k]]

\* the connection the pool opens next
nextConnection(conns) ==
  CHOOSE k \in ConnIds :
    /\ conns[k] = Unopened
    /\ \A j \in ConnIds : conns[j] = Unopened => k <= j

\* a connection that is checked in is closed whatever its generation
willDestroy_never(stale, healthy) == FALSE

\* checkIn closes the connection unless its generation is the pool's and it
\* is healthy
willDestroy(stale, healthy) == stale \/ ~healthy

\* the caller blocked last is served first
nextWaiter_last(q) == q[Len(q)]

\* the wait queue is FIFO
nextWaiter(q) == Head(q)

\* the wait queue without the caller
withoutCaller(q, c) == SelectSeq(q, LAMBDA x : x # c)

\* ----------------------------------------------------------------- actions
\* the Topology as constructed from the seed list
TopoIdle ==
  /\ state = STATE_CLOSED
  /\ description = MakeDescription("Unknown", [a \in {AddrOrder[1]} |-> UnknownSD], 0, 0)
  /\ servers = NoServers
  /\ instances = <<>>
  /\ requests = <<>>
  /\ issued = 0
  /\ callbacks = <<>>
  /\ called = NoCall
  /\ waitQueue = <<>>
  /\ closePhase = "idle"
  /\ closePending = {}
  /\ closeCallback = FALSE
  /\ closeObserved = NothingObserved
  /\ clusterTime = 0
  /\ transaction = NoTransaction
  /\ incoming = NoDescription
  /\ pass = NoPass
  /\ attempted = {}
  /\ pings = 0

Init ==
  /\ probe = NoProbe
  /\ credentials = FALSE
  /\ TopoIdle
  /\ ExecIdle
  /\ ServerNew
  /\ PoolIdle

\* Topology.selectServer(selector, {serverSelectionTimeoutMS, session},
\* callback); sess tells whether options.session is given
selectServer(sel, timeoutMS, sess) ==
  /\ UNCHANGED <<execVars, srvVars, poolVars, sdVars, credentials>>
  /\ issued < MaxReqs
  /\ IF sess /\ bypasses(description, transaction)
     THEN /\ callbacks' =
               retain([r \in DOMAIN callbacks \cup {issued + 1} |->
                         IF r = issued + 1
                         THEN invoke([newCall EXCEPT !.session = sess], "server",
                                     transaction.server)
                         ELSE callbacks[r]],
                      requests)
          /\ pass' = NoPass
          /\ attempted' = {}
          /\ UNCHANGED <<requests, waitQueue, state, transaction, pings>>
     ELSE LET e == enqueue("user", sel, timeoutMS, sess)
          IN \E choice \in randomSelection(e.requests, e.waitQueue, description) :
               \E p \in {processWaitQueue(state, description, servers, e.requests,
                                          e.callbacks, e.waitQueue, choice, transaction)} :
                  /\ requests' = reachable(p.requests, p.waitQueue)
                  /\ callbacks' = retain(p.callbacks, requests')
                  /\ waitQueue' = p.waitQueue
                  /\ state' = p.state
                  /\ transaction' = p.transaction
                  /\ pass' = p.pass
                  /\ attempted' = p.attempted
                  /\ pings' = pings + p.pings
  /\ issued' = issued + 1
  /\ called' = sel
  /\ incoming' = NoDescription
  /\ closeObserved' = NothingObserved
  /\ UNCHANGED <<description, servers, instances, closePhase, closePending, closeCallback,
                 clusterTime>>

\* Topology.connect(options, callback) while not connected; while closing
\* stateTransition throws and nothing else is done
connect ==
  /\ UNCHANGED <<execVars, srvVars, poolVars, sdVars, credentials>>
  /\ state # STATE_CONNECTED
  /\ IF ~legalTransition(state, STATE_CONNECTING)
     THEN /\ attempted' = {[from |-> state, to |-> STATE_CONNECTING]}
          /\ callbacks' = retain(callbacks, requests)
          /\ pass' = NoPass
          /\ called' = NoCall
          /\ UNCHANGED <<state, requests, waitQueue, servers, instances, issued,
                         transaction, pings>>
     ELSE /\ issued < MaxReqs
          /\ Len(instances) + Cardinality(DOMAIN description.servers) <= MaxServers
          /\ LET cs == connectServers(description, instances)
                 e == enqueue("connect", "primary", serverSelectionTimeoutMS, FALSE)
             IN \E choice \in randomSelection(e.requests, e.waitQueue, description) :
                  \E p \in {processWaitQueue(STATE_CONNECTING, description, cs.servers,
                                             e.requests, e.callbacks, e.waitQueue, choice,
                                             transaction)} :
                     /\ transaction' = p.transaction
                     /\ pass' = p.pass
                     /\ attempted' = {[from |-> state, to |-> STATE_CONNECTING]}
                                        \cup p.attempted
                     /\ pings' = pings + p.pings
                     /\ requests' = reachable(p.requests, p.waitQueue)
                     /\ callbacks' = retain(p.callbacks, requests')
                     /\ waitQueue' = p.waitQueue
                     /\ state' = p.state
                     /\ servers' = cs.servers
                     /\ instances' = cs.instances
          /\ issued' = issued + 1
          /\ called' = "primary"
  /\ incoming' = NoDescription
  /\ closeObserved' = NothingObserved
  /\ UNCHANGED <<description, closePhase, closePending, closeCallback, clusterTime>>

\* the synchronous part of Topology.close on a connecting or connected
\* topology: closing, the wait queue is drained, the session pool is ended
closeBegin(rq, cbs) ==
  LET dr == drainWaitQueue(rq, cbs, waitQueue, "TopologyClosed")
      rq2 == reachable(dr.requests, dr.waitQueue)
  IN /\ state' = STATE_CLOSING
     /\ attempted' = {[from |-> state, to |-> STATE_CLOSING]}
     /\ requests' = rq2
     /\ callbacks' = retain(dr.callbacks, rq2)
     /\ waitQueue' = dr.waitQueue
     /\ closePhase' = "sessions"

\* Topology.close(options, callback) called by the user
close ==
  /\ UNCHANGED <<execVars, srvVars, poolVars, sdVars, credentials, pings>>
  /\ IF state \in {STATE_CLOSED, STATE_CLOSING}
     THEN /\ closeObserved' = observe(state, servers, instances)
          /\ callbacks' = retain(callbacks, requests)
          /\ attempted' = {}
          /\ UNCHANGED <<state, requests, waitQueue, closePhase, closeCallback>>
     ELSE /\ closeBegin(requests, callbacks)
          /\ closeCallback' = TRUE
          /\ closeObserved' = NothingObserved
  /\ called' = NoCall
  /\ incoming' = NoDescription
  /\ pass' = NoPass
  /\ UNCHANGED <<description, servers, instances, issued, closePending, clusterTime,
                 transaction>>

\* the setTimeout callback of a request: cancelled, callback(timeoutError);
\* the callback of connect()'s own request calls this.close()
timerFired(r) ==
  /\ UNCHANGED <<execVars, srvVars, poolVars, sdVars, credentials, pings>>
  /\ r \in DOMAIN requests
  /\ requests[r].timer = "armed"
  /\ LET rq1 == [requests EXCEPT ![r] = [@ EXCEPT !.cancelled = TRUE, !.timer = "fired"]]
         cb1 == [callbacks EXCEPT ![r] = invoke(@, "timeout", 0)]
         rq2 == reachable(rq1, waitQueue)
     IN IF requests[r].kind = "connect" /\ state \notin {STATE_CLOSED, STATE_CLOSING}
        THEN /\ closeBegin(rq1, cb1)
             /\ closeCallback' = FALSE
        ELSE /\ requests' = rq2
             /\ callbacks' = retain(cb1, rq2)
             /\ attempted' = {}
             /\ UNCHANGED <<state, waitQueue, closePhase, closeCallback>>
  /\ called' = NoCall
  /\ incoming' = NoDescription
  /\ pass' = NoPass
  /\ closeObserved' = NothingObserved
  /\ UNCHANGED <<description, servers, instances, issued, closePending, clusterTime,
                 transaction>>

\* the last callback of close(): the map is cleared, closed, callback(err)
closeFinish(insts) ==
  /\ servers' = NoServers
  /\ state' = STATE_CLOSED
  /\ attempted' = {[from |-> state, to |-> STATE_CLOSED]}
  /\ closePhase' = "idle"
  /\ closePending' = {}
  /\ closeCallback' = FALSE
  /\ closeObserved' = IF closeCallback THEN observe(STATE_CLOSED, servers, insts)
                      ELSE NothingObserved

\* the callback of sessionPool.endAllPooledSessions inside close(): every
\* Server of the map is handed to destroyServer
sessionsEnded ==
  /\ UNCHANGED <<execVars, srvVars, poolVars, sdVars, credentials, pings>>
  /\ closePhase = "sessions"
  /\ LET snapshot == Range(servers)
         pending == {i \in snapshot : instances[i].state # STATE_CLOSED}
     IN /\ instances' = [i \in DOMAIN instances |->
                           IF i \in snapshot THEN destroyServer(instances[i])
                           ELSE instances[i]]
        /\ IF pending = {}
           THEN closeFinish(instances')
           ELSE /\ closePhase' = "destroying"
                /\ closePending' = pending
                /\ closeObserved' = NothingObserved
                /\ attempted' = {}
                /\ UNCHANGED <<servers, state, closeCallback>>
  /\ called' = NoCall
  /\ incoming' = NoDescription
  /\ pass' = NoPass
  /\ callbacks' = retain(callbacks, requests)
  /\ UNCHANGED <<description, requests, issued, waitQueue, clusterTime, transaction>>

\* the callback of pool.close inside Server.destroy: the Server is closed;
\* the last one awaited by close() completes it
poolClosed(i) ==
  /\ UNCHANGED <<execVars, srvVars, poolVars, sdVars, credentials, pings>>
  /\ i \in DOMAIN instances
  /\ instances[i].state = STATE_CLOSING
  /\ instances' = [instances EXCEPT ![i].state = STATE_CLOSED]
  /\ IF closePhase = "destroying" /\ i \in closePending
     THEN IF closePending = {i}
          THEN closeFinish(instances')
          ELSE /\ closePending' = closePending \ {i}
               /\ closeObserved' = NothingObserved
               /\ attempted' = {}
               /\ UNCHANGED <<servers, state, closePhase, closeCallback>>
     ELSE /\ closeObserved' = NothingObserved
          /\ attempted' = {}
          /\ UNCHANGED <<servers, state, closePhase, closePending, closeCallback>>
  /\ called' = NoCall
  /\ incoming' = NoDescription
  /\ pass' = NoPass
  /\ callbacks' = retain(callbacks, requests)
  /\ UNCHANGED <<description, requests, issued, waitQueue, clusterTime, transaction>>

\* the Monitor of Server i reports a successful heartbeat: the description
\* is published, then a connecting Server becomes connected; rec is what the
\* step leaves in incoming
heartbeatReceived(i, sd, rec) ==
  /\ UNCHANGED <<execVars, srvVars, poolVars, sdVars, credentials>>
  /\ i \in DOMAIN instances
  /\ instances[i].monitor
  /\ LET addr == instances[i].address
         d2 == update(description, addr, sd)
         passed == IF /\ instances[i].listening
                      /\ hasServer(description, addr)
                      /\ ~d2.compatibilityError
                   THEN waitQueue ELSE <<>>
     IN \E choice \in randomSelection(requests, passed, d2) :
          \E h \in {IF instances[i].listening
                    THEN serverUpdateHandler(addr, sd, choice)
                    ELSE [description |-> description, servers |-> servers,
                          instances |-> instances, requests |-> requests,
                          callbacks |-> callbacks, waitQueue |-> waitQueue,
                          state |-> state, clusterTime |-> clusterTime,
                          transaction |-> transaction, pass |-> NoPass,
                          attempted |-> {}, pings |-> 0]} :
             /\ Len(h.instances) <= MaxServers
             /\ clusterTime' = h.clusterTime
             /\ pass' = h.pass
             /\ attempted' = h.attempted
             /\ pings' = pings + h.pings
             /\ transaction' = h.transaction
             /\ description' = h.description
             /\ servers' = h.servers
             /\ requests' = reachable(h.requests, h.waitQueue)
             /\ callbacks' = retain(h.callbacks, requests')
             /\ waitQueue' = h.waitQueue
             /\ state' = h.state
             /\ instances' = [h.instances EXCEPT
                                ![i].state = IF @ = STATE_CONNECTING
                                             THEN STATE_CONNECTED ELSE @]
  /\ called' = NoCall
  /\ incoming' = rec
  /\ closeObserved' = NothingObserved
  /\ UNCHANGED <<issued, closePhase, closePending, closeCallback>>

heartbeatSucceeded(i, sd) == heartbeatReceived(i, sd, NoDescription)

\* what serverUpdateHandler is called with when Server i publishes sd:
\* nothing once the topology has removed its listeners from the Server
handed(i, sd) ==
  IF instances[i].listening THEN [address |-> instances[i].address, description |-> sd]
  ELSE NoDescription

\* a heartbeat of some Monitor succeeds, with whatever the server reports
heartbeat ==
  \E i \in DOMAIN instances :
    \E sd \in IncomingSD(instances[i].address) : heartbeatSucceeded(i, sd)

Next ==
  \/ \E sel \in Selectors, t \in TimeoutValues : selectServer(sel, t, FALSE)
  \/ connect
  \/ close
  \/ \E r \in DOMAIN requests : timerFired(r)
  \/ sessionsEnded
  \/ \E i \in DOMAIN instances : poolClosed(i)
  \/ heartbeat

Spec == Init /\ [][Next]_vars

\* timers fire, the callbacks of close() and of Server.destroy arrive and the
\* Monitors keep reporting; calls of the user need not happen
FairSpec ==
  /\ Spec
  /\ \A r \in 1..MaxReqs : WF_vars(timerFired(r))
  /\ WF_vars(sessionsEnded)
  /\ \A i \in 1..MaxServers : WF_vars(poolClosed(i))
  /\ WF_vars(heartbeat)

\* the callback of the { ping: 1 } command of connect(): with an error the
\* caller gets it and the state stays; without one
\* stateTransition(this, STATE_CONNECTED) is called, which throws when the
\* transition is not in the table. A ping is answered without error only
\* while no Server has been handed to destroyServer
pingReturned(ok) ==
  /\ UNCHANGED <<execVars, srvVars, poolVars, sdVars, credentials>>
  /\ pings > 0
  /\ pings' = pings - 1
  /\ ok => (state \in {STATE_CONNECTING, STATE_CONNECTED} \/ closePhase = "sessions")
  /\ attempted' = IF ok THEN {[from |-> state, to |-> STATE_CONNECTED]} ELSE {}
  /\ state' = IF ok /\ legalTransition(state, STATE_CONNECTED) THEN STATE_CONNECTED
              ELSE state
  /\ callbacks' = retain(callbacks, requests)
  /\ called' = NoCall
  /\ incoming' = NoDescription
  /\ pass' = NoPass
  /\ closeObserved' = NothingObserved
  /\ UNCHANGED <<description, servers, instances, requests, issued, waitQueue, closePhase,
                 closePending, closeCallback, clusterTime, transaction>>

\* a topology constructed with credentials
InitCredentials ==
  /\ probe = NoProbe
  /\ credentials = TRUE
  /\ TopoIdle
  /\ ExecIdle
  /\ ServerNew
  /\ PoolIdle

NextCredentials ==
  \/ connect
  \/ close
  \/ \E r \in DOMAIN requests : timerFired(r)
  \/ sessionsEnded
  \/ \E i \in DOMAIN instances : poolClosed(i)
  \/ heartbeat
  \/ \E ok \in BOOLEAN : pingReturned(ok)

\* connect() and close() of a topology with credentials, with the
\* completions they wait for
SpecCredentials == InitCredentials /\ [][NextCredentials]_vars

\* ------------------------------------------- selection under a transaction
\* a mongos answers the heartbeat
MongosSD == [UnknownSD EXCEPT !.type = "Mongos"]

\* a heartbeat of some Monitor succeeds on a deployment that may be sharded
heartbeatSharded ==
  \E i \in DOMAIN instances :
    \E sd \in IncomingSD(instances[i].address) \cup {MongosSD} : heartbeatSucceeded(i, sd)

\* session.startTransaction(): the transaction is active, nothing is pinned
startTransaction ==
  /\ ~transaction.isActive
  /\ transaction' = [server |-> 0, isActive |-> TRUE]
  /\ called' = NoCall
  /\ incoming' = NoDescription
  /\ pass' = NoPass
  /\ attempted' = {}
  /\ UNCHANGED <<credentials, pings>>
  /\ closeObserved' = NothingObserved
  /\ callbacks' = retain(callbacks, requests)
  /\ UNCHANGED <<state, description, servers, instances, requests, issued, waitQueue,
                 closePhase, closePending, closeCallback, clusterTime>>
  /\ UNCHANGED <<execVars, srvVars, poolVars, sdVars>>

\* the transaction is committed or aborted: it is over and its pin released
endTransaction ==
  /\ transaction.isActive
  /\ transaction' = NoTransaction
  /\ called' = NoCall
  /\ incoming' = NoDescription
  /\ pass' = NoPass
  /\ attempted' = {}
  /\ UNCHANGED <<credentials, pings>>
  /\ closeObserved' = NothingObserved
  /\ callbacks' = retain(callbacks, requests)
  /\ UNCHANGED <<state, description, servers, instances, requests, issued, waitQueue,
                 closePhase, closePending, closeCallback, clusterTime>>
  /\ UNCHANGED <<execVars, srvVars, poolVars, sdVars>>

NextPinned ==
  \/ connect
  \/ \E sel \in Selectors, sess \in BOOLEAN :
        selectServer(sel, serverSelectionTimeoutMS, sess)
  \/ startTransaction
  \/ endTransaction
  \/ heartbeatSharded

\* the topology with callers that pass a session, over the time in which no
\* selection timer elapses and the topology is not closed
SpecPinned == Init /\ [][NextPinned]_vars

\* --------------------------------- topology versions and cluster times
\* the greatest timestamp a $clusterTime carries
MaxTime == 2

\* the topologyVersion values an ismaster reply may carry
TopologyVersions ==
  {NoVersion,
   [processId |-> "p", counter |-> 1],
   [processId |-> "p", counter |-> 2],
   [processId |-> "q", counter |-> 1]}

\* compareTopologyVersion(lhs, rhs): negative when lhs is older than rhs,
\* when either is missing and when the processIds differ
compareTopologyVersion(lhs, rhs) ==
  IF lhs = NoVersion \/ rhs = NoVersion THEN -1
  ELSE IF lhs.processId = rhs.processId
       THEN IF lhs.counter = rhs.counter THEN 0
            ELSE IF lhs.counter < rhs.counter THEN -1 ELSE 1
       ELSE -1

\* the replies of IncomingSD, that of a primary that reports itself alone
\* with a wire version range the driver does not support, and those of a
\* primary that reports itself alone with a topologyVersion and a $clusterTime
ReportedSD(addr) ==
  IncomingSD(addr) \cup
  {[UnknownSD EXCEPT !.type = "RSPrimary", !.hosts = {addr}, !.compatible = FALSE]} \cup
  {[UnknownSD EXCEPT !.type = "RSPrimary", !.hosts = {addr},
                     !.topologyVersion = tv, !.clusterTime = ct] :
     tv \in TopologyVersions, ct \in 0..MaxTime}

\* a heartbeat of some Monitor succeeds; the reply carries a topologyVersion
\* and a $clusterTime
heartbeatVersioned ==
  \E i \in DOMAIN instances :
    \E sd \in ReportedSD(instances[i].address) : heartbeatReceived(i, sd, handed(i, sd))

\* the CLUSTER_TIME_RECEIVED handler of Server i: a connection of its pool
\* got a reply with a $clusterTime, which is assigned to server.clusterTime
\* and by its setter to topology.clusterTime
clusterTimeReceived(i, ct) ==
  /\ i \in DOMAIN instances
  /\ instances[i].state \in {STATE_CONNECTING, STATE_CONNECTED, STATE_CLOSING}
  /\ clusterTime' = ct
  /\ called' = NoCall
  /\ incoming' = NoDescription
  /\ pass' = NoPass
  /\ attempted' = {}
  /\ UNCHANGED <<credentials, pings>>
  /\ closeObserved' = NothingObserved
  /\ callbacks' = retain(callbacks, requests)
  /\ UNCHANGED <<state, description, servers, instances, requests, issued, waitQueue,
                 closePhase, closePending, closeCallback, transaction>>
  /\ UNCHANGED <<execVars, srvVars, poolVars, sdVars>>

NextGossip ==
  \/ connect
  \/ heartbeatVersioned
  \/ \E i \in DOMAIN instances, ct \in 1..MaxTime : clusterTimeReceived(i, ct)

\* the topology while its Monitors and connections report topology versions
\* and cluster times
SpecGossip == Init /\ [][NextGossip]_vars

\* ------------------------------------------------- elections of a primary
\* the greatest setVersion a reply carries
MaxSetVersion == 2
\* the greatest electionId a reply carries
MaxElectionId == 2

\* the replies of a replica set member: none, or a primary that reports
\* every address as hosts with its setVersion and its electionId
ElectedSD(addr) ==
  {UnknownSD} \cup
  {[UnknownSD EXCEPT !.type = "RSPrimary", !.hosts = Addr,
                     !.setVersion = sv, !.electionId = e] :
     sv \in 1..MaxSetVersion, e \in 1..MaxElectionId}

\* a heartbeat of some Monitor succeeds on a replica set that holds elections
heartbeatElected ==
  \E i \in DOMAIN instances :
    \E sd \in ElectedSD(instances[i].address) :
      heartbeatReceived(i, sd, handed(i, sd))

NextElection ==
  \/ connect
  \/ heartbeatElected

\* the topology while the members of a replica set report primaries of
\* several elections
SpecElection == Init /\ [][NextElection]_vars

\* -------------------------------------------------- actions of the Server
\* Server.connect(): nothing unless closed; connecting, the Monitor starts
serverConnect ==
  /\ IF sState # STATE_CLOSED
     THEN UNCHANGED <<sState, sMonitor>>
     ELSE /\ STATE_CONNECTING \in serverStateTable[sState]
          /\ sState' = STATE_CONNECTING
          /\ sMonitor' = TRUE
  /\ sEvent' = [NoEvent EXCEPT !.op = "connect"]
  /\ UNCHANGED <<sPool, sDescription, sTopologyVersion, sConns>>
  /\ UNCHANGED <<topoVars, execVars, poolVars, sdVars>>

\* Server.destroy(options, callback): the callback at once when closed;
\* otherwise closing, the Monitor is closed and pool.close is called
serverDestroy ==
  /\ IF sState = STATE_CLOSED
     THEN /\ sEvent' = [NoEvent EXCEPT !.op = "destroy", !.calls = 1]
          /\ UNCHANGED <<sState, sMonitor, sPool>>
     ELSE /\ sPool.closing < MaxCloses
          /\ STATE_CLOSING \in serverStateTable[sState]
          /\ sState' = STATE_CLOSING
          /\ sMonitor' = closeMonitor(sMonitor)
          /\ sPool' = [sPool EXCEPT !.closing = @ + 1, !.closed = TRUE]
          /\ sEvent' = [NoEvent EXCEPT !.op = "destroy"]
  /\ UNCHANGED <<sDescription, sTopologyVersion, sConns>>
  /\ UNCHANGED <<topoVars, execVars, poolVars, sdVars>>

\* the callback of pool.close inside destroy: closed, 'closed' is emitted
\* and the callback of destroy runs
serverPoolClosed ==
  /\ sPool.closing > 0
  /\ STATE_CLOSED \in serverStateTable[sState]
  /\ sState' = STATE_CLOSED
  /\ sPool' = [sPool EXCEPT !.closing = @ - 1]
  /\ sEvent' = [NoEvent EXCEPT !.op = "poolClosed", !.calls = 1]
  /\ UNCHANGED <<sMonitor, sDescription, sTopologyVersion, sConns>>
  /\ UNCHANGED <<topoVars, execVars, poolVars, sdVars>>

\* the SERVER_HEARTBEAT_SUCCEEDED handler: the description is published and
\* a connecting Server becomes connected
serverHeartbeatSucceeded(tv) ==
  /\ sMonitor
  /\ sDescription' = "Standalone"
  /\ sTopologyVersion' = tv
  /\ sState' = IF sState = STATE_CONNECTING THEN STATE_CONNECTED ELSE sState
  /\ sEvent' = [NoEvent EXCEPT !.op = "heartbeat"]
  /\ UNCHANGED <<sMonitor, sPool, sConns>>
  /\ UNCHANGED <<topoVars, execVars, poolVars, sdVars>>

\* the published description always takes the topologyVersion of the error
unknownTopologyVersion_error(etv, stv) == etv

\* the topologyVersion of the description markServerUnknown publishes:
\* error && error.topologyVersion ? error.topologyVersion
\*                                : server.description.topologyVersion
unknownTopologyVersion(etv, stv) == IF etv # NoVersion THEN etv ELSE stv

\* the Monitor's heartbeat fails with the error err whose topologyVersion is
\* etv: 'resetServer' marks the Server Unknown and 'resetConnectionPool'
\* clears the pool
serverHeartbeatFailed(err, etv) ==
  /\ sMonitor
  /\ sPool.generation < MaxGen
  /\ sDescription' = "Unknown"
  /\ sTopologyVersion' = unknownTopologyVersion(etv, sTopologyVersion)
  /\ sPool' = clear(sPool)
  /\ sEvent' = [NoEvent EXCEPT !.op = "heartbeatFailed", !.err = err,
                               !.unknown = TRUE, !.cleared = TRUE,
                               !.topologyVersion = etv]
  /\ UNCHANGED <<sState, sMonitor, sConns>>
  /\ UNCHANGED <<topoVars, execVars, poolVars, sdVars>>

\* Server.command / query / getMore / killCursors with a callback, up to the
\* checkout of pool.withConnection: checkoutErr is the error of the checkout,
\* "none" when a connection is handed out; collation tells whether a command
\* asks for a collation the server does not support
serverOperation(op, checkoutErr, collation) ==
  /\ IF rejects(sState)
     THEN /\ sEvent' = [NoEvent EXCEPT !.op = op, !.calls = 1, !.result = "server is closed"]
          /\ UNCHANGED <<sDescription, sTopologyVersion, sConns>>
     ELSE IF op = "command" /\ collation
     THEN /\ sEvent' = [NoEvent EXCEPT !.op = op, !.calls = 1,
                                       !.result = "collation not supported"]
          /\ UNCHANGED <<sDescription, sTopologyVersion, sConns>>
     ELSE IF checkoutErr # "none" \/ sPool.closed
     THEN /\ sDescription' = "Unknown"
          /\ UNCHANGED sTopologyVersion
          /\ sEvent' = [NoEvent EXCEPT !.op = op, !.calls = 1, !.checkout = TRUE,
                                       !.unknown = TRUE,
                                       !.result = IF sPool.closed THEN "pool closed"
                                                  ELSE checkoutErr]
          /\ UNCHANGED sConns
     ELSE /\ sConns[sPool.generation] < MaxConns
          /\ sConns' = [sConns EXCEPT ![sPool.generation] = @ + 1]
          /\ sEvent' = [NoEvent EXCEPT !.op = op, !.checkout = TRUE]
          /\ UNCHANGED <<sDescription, sTopologyVersion>>
  /\ UNCHANGED <<sState, sMonitor, sPool>>
  /\ UNCHANGED <<topoVars, execVars, poolVars, sdVars>>

\* the topologyVersion of the error is not compared
shouldHandleStateChangeError_always(stv, etv) == TRUE

\* compareTopologyVersion(server.description.topologyVersion, err.topologyVersion) < 0
shouldHandleStateChangeError(stv, etv) == compareTopologyVersion(stv, etv) < 0

\* an error is handled whatever the generation of its connection
handlesError_stale(err, stale) == err # "none"

\* if (err && !connectionIsStale(server.s.pool, connection))
handlesError(err, stale) == err # "none" /\ ~stale

\* handleOperationResult(err, result) of makeOperationHandler for an
\* operation whose connection was checked out at generation g; etv is the
\* topologyVersion of the error, old tells whether
\* maxWireVersion(server) <= 7, and eligible whether topology, command,
\* server and session meet the conditions under which an error of this kind
\* gets the RetryableWriteError label
serverOperationResult(g, err, etv, old, eligible) ==
  /\ sConns[g] > 0
  /\ sConns' = [sConns EXCEPT ![g] = @ - 1]
  /\ LET stale == connectionIsStale(sPool, g)
         handled == handlesError(err, stale)
         labels == handled /\ eligible
         fresh == shouldHandleStateChangeError(sTopologyVersion, etv)
         checks == handled /\ ~isNetworkError(err) /\ isSDAMUnrecoverableError(err) /\ fresh
         marks == /\ handled
                  /\ \/ isNetworkError(err) /\ resetsServer(err)
                     \/ ~isNetworkError(err) /\ isSDAMUnrecoverableError(err) /\ fresh
         clears == /\ handled
                   /\ \/ isNetworkError(err) /\ resetsServer(err)
                      \/ /\ ~isNetworkError(err) /\ isSDAMUnrecoverableError(err) /\ fresh
                         /\ old \/ err = "nodeShuttingDown"
     IN /\ clears => sPool.generation < MaxGen
        /\ sDescription' = IF marks THEN "Unknown" ELSE sDescription
        /\ sTopologyVersion' = IF marks THEN unknownTopologyVersion(etv, sTopologyVersion)
                                ELSE sTopologyVersion
        /\ sPool' = IF clears THEN clear(sPool) ELSE sPool
        /\ sEvent' = [NoEvent EXCEPT !.op = "result", !.err = err, !.stale = stale,
                                     !.unknown = marks, !.cleared = clears,
                                     !.calls = 1, !.result = err, !.check = checks,
                                     !.topologyVersion = etv, !.old = old,
                                     !.eligible = eligible, !.labelled = labels]
  /\ UNCHANGED <<sState, sMonitor>>
  /\ UNCHANGED <<topoVars, execVars, poolVars, sdVars>>

\* maxWireVersion(server) is read for state change errors only
WireVersionsRead(err) == IF isSDAMUnrecoverableError(err) THEN BOOLEAN ELSE {FALSE}

NextServer ==
  \/ serverConnect
  \/ serverDestroy
  \/ serverPoolClosed
  \/ serverHeartbeatSucceeded(NoVersion)
  \/ serverHeartbeatFailed("network", NoVersion)
  \/ \E op \in ServerOperations, checkoutErr \in {"none", "network"}, collation \in BOOLEAN :
        serverOperation(op, checkoutErr, collation)
  \/ \E g \in 0..MaxGen, err \in OperationErrors :
        \E old \in WireVersionsRead(err) :
          serverOperationResult(g, err, NoVersion, old, FALSE)

\* one Server driven through connect, destroy, its Monitor and operations;
\* the server is older than 4.4: neither its replies nor its errors carry a
\* topologyVersion
SpecServer == Init /\ [][NextServer]_vars

\* the errors of a server that reports a change of its state
StateChangeErrors == {"stateChange", "nodeShuttingDown"}

\* the topologyVersion an error may carry: a state change error of the
\* server carries one or none, the other errors carry none
ErrorVersions(err) == IF isSDAMUnrecoverableError(err) THEN TopologyVersions ELSE {NoVersion}

\* the conditions of the label are read for an error only
LabelsRead(err) == IF err = "none" THEN {FALSE} ELSE BOOLEAN

NextStateChange ==
  \/ serverConnect
  \/ \E tv \in TopologyVersions : serverHeartbeatSucceeded(tv)
  \/ \E err \in StateChangeErrors \cup {"network"} :
        \E etv \in ErrorVersions(err) : serverHeartbeatFailed(err, etv)
  \/ serverOperation("command", "none", FALSE)
  \/ \E g \in 0..MaxGen, err \in StateChangeErrors :
        \E etv \in TopologyVersions, old \in BOOLEAN :
          serverOperationResult(g, err, etv, old, FALSE)

\* one Server whose replies and state change errors carry topology versions
SpecStateChange == Init /\ [][NextStateChange]_vars

NextStale ==
  \/ serverConnect
  \/ serverHeartbeatSucceeded(NoVersion)
  \/ serverHeartbeatFailed("network", NoVersion)
  \/ serverOperation("command", "none", FALSE)
  \/ \E g \in 0..MaxGen, err \in OperationErrors :
        \E old \in WireVersionsRead(err), eligible \in LabelsRead(err) :
          serverOperationResult(g, err, NoVersion, old, eligible)

\* one Server whose pool is cleared while operations are in flight, the
\* errors they return eligible for the RetryableWriteError label or not
SpecStale == Init /\ [][NextStale]_vars

\* a ConnectionPool of the given maxPoolSize, its callers holding nothing
InitPool ==
  /\ probe = NoProbe
  /\ credentials = FALSE
  /\ TopoIdle
  /\ ExecIdle
  /\ ServerNew
  /\ PoolNew

\* checkOut: the caller gets an idle connection of the pool's generation if
\* there is one, else a connection opened for it if the pool owns fewer than
\* maxPoolSize, else it is blocked at the end of the wait queue; k is the
\* connection it gets, 0 when it is blocked
checkOut(c, k) ==
  /\ UNCHANGED <<topoVars, execVars, srvVars, sdVars>>
  /\ holds[c] = 0
  /\ c \notin Range(poolWaitQueue)
  /\ LET conns == discardStale(connectionPool, connections)
         idle == available(connectionPool, conns)
         opens == idle = {} /\ Cardinality(totalConnections(conns)) < connectionPool.maxPoolSize
     IN /\ IF idle # {} THEN k \in idle
           ELSE IF opens
                THEN /\ \E j \in ConnIds : conns[j] = Unopened
                     /\ k = nextConnection(conns)
                ELSE k = 0
        /\ connections' =
             IF k = 0 THEN conns
             ELSE [conns EXCEPT ![k] = [state |-> "checkedOut",
                                        generation |-> IF opens THEN connectionPool.generation
                                                       ELSE conns[k].generation]]
        /\ holds' = IF k = 0 THEN holds ELSE [holds EXCEPT ![c] = k]
        /\ poolWaitQueue' = IF k = 0 THEN Append(poolWaitQueue, c) ELSE poolWaitQueue
        /\ poolEvent' = [op |-> "checkOut", caller |-> c, conn |-> 0,
                         served |-> IF k = 0 THEN 0 ELSE c, returned |-> k]
  /\ UNCHANGED connectionPool

\* checkIn(conn) by the caller that holds it: the connection goes back to
\* the pool and the first blocked caller is woken with it, or it is closed
\* and the first blocked caller gets a connection opened in its place
checkIn(c, healthy) ==
  /\ UNCHANGED <<topoVars, execVars, srvVars, sdVars>>
  /\ holds[c] # 0
  /\ LET k == holds[c]
         closes == willDestroy(connectionIsStale(connectionPool, connections[k].generation), healthy)
         waiting == Len(poolWaitQueue) > 0
         w == IF waiting THEN nextWaiter(poolWaitQueue) ELSE 0
         conns == [connections EXCEPT ![k].state = IF closes THEN "closed"
                                                   ELSE IF waiting THEN "checkedOut"
                                                   ELSE "idle"]
         got == IF ~waiting THEN 0
                ELSE IF closes THEN nextConnection(conns)
                ELSE k
     IN /\ (waiting /\ closes) => \E j \in ConnIds : conns[j] = Unopened
        /\ connections' =
             IF waiting /\ closes
             THEN [conns EXCEPT ![got] = [state |-> "checkedOut",
                                          generation |-> connectionPool.generation]]
             ELSE conns
        /\ holds' = [x \in Callers |-> IF x = w THEN got
                                         ELSE IF x = c THEN 0
                                         ELSE holds[x]]
        /\ poolWaitQueue' = IF waiting THEN withoutCaller(poolWaitQueue, w) ELSE poolWaitQueue
        /\ poolEvent' = [op |-> "checkIn", caller |-> c, conn |-> k,
                         served |-> w, returned |-> got]
  /\ UNCHANGED connectionPool

\* pool.clear(): the generation is incremented, no connection is touched
poolClear ==
  /\ UNCHANGED <<topoVars, execVars, srvVars, sdVars>>
  /\ connectionPool.generation < MaxClears
  /\ connectionPool' = clear(connectionPool)
  /\ poolEvent' = [NoPoolEvent EXCEPT !.op = "clear"]
  /\ UNCHANGED <<connections, holds, poolWaitQueue>>

\* the deadline of a blocked checkOut elapses: it fails with a
\* WaitQueueTimeoutError and leaves the wait queue
waitQueueTimeout(c) ==
  /\ UNCHANGED <<topoVars, execVars, srvVars, sdVars>>
  /\ c \in Range(poolWaitQueue)
  /\ poolWaitQueue' = withoutCaller(poolWaitQueue, c)
  /\ poolEvent' = [NoPoolEvent EXCEPT !.op = "MongoWaitQueueTimeoutError", !.caller = c]
  /\ UNCHANGED <<connectionPool, connections, holds>>

NextPool ==
  \/ \E c \in Callers, k \in ConnIds \cup {0} : checkOut(c, k)
  \/ \E c \in Callers, healthy \in BOOLEAN : checkIn(c, healthy)
  \/ poolClear
  \/ \E c \in Callers : waitQueueTimeout(c)

\* one ConnectionPool under concurrent callers
SpecPool == InitPool /\ [][NextPool]_vars

\* a call of executeWithServerSelection(topology, session, operation, callback)
InitExec ==
  /\ probe = NoProbe
  /\ credentials = FALSE
  /\ TopoIdle
  /\ ServerNew
  /\ PoolIdle
  /\ operation \in Operations
  /\ session \in Sessions
  /\ options \in [retryReads : OptionValues, retryWrites : OptionValues]
  /\ pc = "start"
  /\ handler = "none"
  /\ selected = <<>>
  /\ errors = <<>>
  /\ executes = 0
  /\ outcome = NoOutcome
  /\ owner \in {own \in BOOLEAN : own => session.present /\ ~session.inTransaction}
  /\ ended = 0
  /\ inTry = owner
  /\ retried = "none"
  /\ retryPick = "none"

\* executeWithServerSelection up to its call of topology.selectServer
executeWithServerSelection ==
  /\ UNCHANGED <<topoVars, srvVars, poolVars, sdVars>>
  /\ pc = "start"
  /\ IF session.present /\ session.inTransaction /\ ~operation.primary
     THEN deliver("transactionReadPreference", FALSE)
     ELSE pc' = "selecting" /\ UNCHANGED <<outcome, ended>>
  /\ UNCHANGED <<operation, session, options, handler, selected, errors, executes, owner, inTry,
                 retried, retryPick>>

\* the selectServer callback of executeWithServerSelection
serverSelected(err, server, sync, throws) ==
  /\ UNCHANGED <<topoVars, srvVars, poolVars, sdVars>>
  /\ pc = "selecting"
  /\ inTry' = (inTry /\ sync)
  /\ IF err
     THEN /\ deliver("selection", FALSE)
          /\ UNCHANGED <<session, handler, selected, executes>>
     ELSE LET willRetryRead ==
                /\ options.retryReads # "false"
                /\ ~session.inTransaction
                /\ supportsRetryableReads(server)
                /\ operation.canRetryRead
              willRetryWrite ==
                /\ options.retryWrites = "true"
                /\ ~session.inTransaction
                /\ supportsRetryableWrites(server)
                /\ operation.canRetryWrite
              hasReadAspect == hasAspect(operation, "READ_OPERATION")
              hasWriteAspect == hasAspect(operation, "WRITE_OPERATION")
              retry == /\ session.present
                       /\ hasAspect(operation, "RETRYABLE")
                       /\ (hasReadAspect /\ willRetryRead) \/ (hasWriteAspect /\ willRetryWrite)
          IN /\ session' = IF retry /\ incrementsTransactionNumber(hasWriteAspect, willRetryWrite)
                           THEN [session EXCEPT !.txnNumber = @ + 1]
                           ELSE session
             /\ handler' = IF retry THEN "callbackWithRetry" ELSE "callback"
             /\ selected' = Append(selected, server)
             /\ executes' = executes + 1
             /\ IF throws THEN thrown(inTry')
                ELSE pc' = "executing" /\ UNCHANGED <<outcome, ended>>
  /\ UNCHANGED <<operation, options, errors, owner, retried, retryPick>>

\* the callback of operation.execute: callbackWithRetry on an armed first
\* attempt, the caller's callback otherwise
executed(failed, err, sync, network) ==
  /\ UNCHANGED <<topoVars, srvVars, poolVars, sdVars>>
  /\ pc = "executing"
  /\ network # "no" => failed /\ err.retryable
  /\ inTry' = (inTry /\ sync)
  /\ errors' = IF ~failed THEN errors
                ELSE IF handler = "callback" /\ Len(errors) > 0 THEN Append(errors, Unread)
                ELSE Append(errors, err)
  /\ IF ~failed THEN deliver("none", TRUE)
     ELSE IF handler = "callback" THEN deliver(IF Len(errors) = 0 THEN "first" ELSE "second", FALSE)
     ELSE LET hasReadAspect == hasAspect(operation, "READ_OPERATION")
              hasWriteAspect == hasAspect(operation, "WRITE_OPERATION")
              itShouldRetryWrite == shouldRetryWrite(err)
          IN IF (hasReadAspect /\ ~err.retryable) \/ (hasWriteAspect /\ ~itShouldRetryWrite)
             THEN deliver(IF Len(errors) = 0 THEN "first" ELSE "second", FALSE)
             ELSE IF /\ hasWriteAspect
                     /\ itShouldRetryWrite
                     /\ isMMAPv1RetryWritesError(err)
                  THEN deliverOriginal("retryableWritesUnsupported", err)
                  ELSE pc' = "reselecting" /\ UNCHANGED <<outcome, ended>>
  /\ retried' = IF pc' = "reselecting" THEN network ELSE retried
  /\ UNCHANGED <<operation, session, options, handler, selected, executes, owner, retryPick>>

\* the selectServer callback inside callbackWithRetry
retryServerSelected(err, server, sync, throws, pick) ==
  /\ UNCHANGED <<topoVars, srvVars, poolVars, sdVars>>
  /\ pc = "reselecting"
  /\ pick \in RetryPicks(retried)
  /\ retryPick' = IF err THEN retryPick ELSE pick
  /\ inTry' = (inTry /\ sync)
  /\ IF err
     THEN /\ deliver("selection", FALSE)
          /\ UNCHANGED <<handler, selected, executes>>
     ELSE /\ selected' = Append(selected, server)
          /\ IF \/ hasAspect(operation, "READ_OPERATION") /\ ~supportsRetryableReads(server)
                \/ hasAspect(operation, "WRITE_OPERATION") /\ ~supportsRetryableWrites(server)
             THEN /\ deliver("none", FALSE)
                  /\ UNCHANGED <<handler, executes>>
             ELSE /\ handler' = retryHandler
                  /\ executes' = executes + 1
                  /\ IF throws THEN thrown(inTry')
                     ELSE pc' = "executing" /\ UNCHANGED <<outcome, ended>>
  /\ UNCHANGED <<operation, session, options, errors, owner, retried>>

\* whether a callback runs in the call stack of executeOperation matters
\* only while its try block is still on the stack
Syncs == IF inTry THEN BOOLEAN ELSE {FALSE}

\* the errors to tell apart in the callback of operation.execute: all of
\* them where callbackWithRetry reads the error, one where it is not read
ErrorsRead ==
  IF handler = "callback" /\ Len(errors) > 0 THEN {Unread} ELSE ExecuteErrors

\* the network failures to tell apart: all where callbackWithRetry may retry
FailuresRead == IF handler = "callbackWithRetry" THEN NetworkFailures ELSE {"no"}

\* the Server argument of a selectServer callback that gets an error
NotSelected == CHOOSE server \in SelectableServers : TRUE

NextExec ==
  \/ executeWithServerSelection
  \/ \E sync \in Syncs : serverSelected(TRUE, NotSelected, sync, FALSE)
  \/ \E sync \in Syncs, throws \in BOOLEAN, server \in SelectableServers :
        serverSelected(FALSE, server, sync, throws)
  \/ \E sync \in Syncs : executed(FALSE, Unread, sync, "no")
  \/ \E sync \in Syncs, err \in ErrorsRead, network \in FailuresRead :
        executed(TRUE, err, sync, network)
  \/ \E sync \in Syncs : retryServerSelected(TRUE, NotSelected, sync, FALSE, "first")
  \/ \E sync \in Syncs, throws \in BOOLEAN, server \in SelectableServers,
        pick \in RetryPicks(retried) :
        retryServerSelected(FALSE, server, sync, throws, pick)

SpecExec == InitExec /\ [][NextExec]_vars

\* ------------------------------------------------------------------ claims
ClosedErrors == {"TopologyClosed", "TopologyIsClosed"}

timerArmed(rq, r) == r \in DOMAIN rq /\ rq[r].timer = "armed"

\* C1: the callback of every selection request is invoked at most once,
\* whatever the order of timer, match, selector exception and drain, and a
\* request completed otherwise than by its timer has no timer pending
C1_CallbackAtMostOnce ==
  \A r \in DOMAIN callbacks :
    /\ callbacks[r].calls <= 1
    /\ (callbacks[r].calls = 1 /\ callbacks[r].result # "timeout")
         => ~timerArmed(requests, r)

\* the timer of a request acted first: its callback got the timeout once and
\* the request, cancelled, is still in the queue for a pass or a drain to
\* meet, next to a request that is still pending
C1_Witness ==
  \E r \in Range(waitQueue), r2 \in Range(waitQueue) :
    /\ requests[r].cancelled
    /\ callbacks[r].calls = 1
    /\ callbacks[r].result = "timeout"
    /\ callbacks[r2].calls = 0

\* C2: a request whose selector matches no server stays queued and
\* uncompleted over every pass unless, in that step, its deadline fires,
\* the topology is closed or closing, or an update makes the selector match
C2_ZeroMatchStaysQueued ==
  [][\A r \in DOMAIN callbacks' :
       LET sel == IF r \in DOMAIN requests THEN requests[r].selector ELSE called'
       IN (callsBefore(r) = 0 /\ ~SelectorThrows(sel) /\ Selected(sel, description) = {})
          => \/ callbacks'[r].calls = 0 /\ r \in Range(waitQueue')
             \/ callbacks'[r].calls = 1 /\ callbacks'[r].result = "timeout"
             \/ /\ callbacks'[r].calls = 1
                /\ callbacks'[r].result \in ClosedErrors
                /\ state' \in {STATE_CLOSING, STATE_CLOSED}
             \/ /\ callbacks'[r].calls = 1
                /\ callbacks'[r].result = "server"
                /\ description' # description
                /\ Selected(sel, description') # {}
    ]_vars

\* a request matching nothing is still queued after a pass that completed a
\* later request
C2_Witness ==
  \E r \in Range(waitQueue) :
    /\ callbacks[r].calls = 0
    /\ Selected(requests[r].selector, description) = {}
    /\ \E r2 \in DOMAIN callbacks : r2 > r /\ callbacks[r2].result = "server"

\* C3: a request completed without error gets a defined Server, the one
\* registered in the server map
C3_ResolvedServerRegistered ==
  [][\A r \in DOMAIN callbacks' :
       (callsBefore(r) = 0 /\ callbacks'[r].result = "server")
       => callbacks'[r].server # 0 /\ callbacks'[r].server \in Range(servers')
    ]_vars

\* C4: every selectServer call eventually has its callback invoked
C4_EveryCallCompletes ==
  \A r \in 1..MaxReqs :
    (r \in DOMAIN callbacks) ~> (r \in DOMAIN callbacks /\ callbacks[r].calls >= 1)

\* C5: close() on a connecting or connected topology invokes the callback of
\* every queued uncancelled request exactly once with the closed-topology
\* error, leaves no timer pending and the queue empty, and has destroyed no
\* Server yet
C5_CloseDrainsQueue ==
  [][(state \in {STATE_CONNECTING, STATE_CONNECTED} /\ state' = STATE_CLOSING)
     => /\ waitQueue' = <<>>
        /\ instances' = instances
        /\ \A r \in Range(waitQueue) :
             /\ ~timerArmed(requests', r)
             /\ ~requests[r].cancelled
                  => /\ r \in DOMAIN callbacks'
                     /\ callbacks'[r].calls = 1
                     /\ \/ callbacks'[r].result = "TopologyClosed"
                        \/ /\ callbacks'[r].result = "timeout"
                           /\ requests[r].kind = "connect"
    ]_vars

\* close() has drained two queued requests and has not yet destroyed a Server
C5_Witness ==
  /\ state = STATE_CLOSING
  /\ closePhase = "sessions"
  /\ Cardinality({r \in DOMAIN callbacks : callbacks[r].result = "TopologyClosed"}) >= 2

\* C6: a close() callback is invoked only once the topology is closed and
\* every Server is destroyed
C6_CloseCallbackAfterDestroy ==
  closeObserved.state \in {"none", STATE_CLOSED} /\ closeObserved.destroyed

\* C7: in a topology closed by close(), destroy() was called on every
\* Server the topology ever created
C7_AllServersDestroyed ==
  state = STATE_CLOSED => \A i \in DOMAIN instances : instances[i].destroyed

\* C8: operation.execute is called at most twice per call, with at most two
\* selections; when the retry fails too, its error goes to the caller as it
\* is, once, and nothing more is selected or executed
C8_AtMostOneRetry ==
  /\ executes <= 2
  /\ Len(selected) <= 2
  /\ outcome.calls <= 1
  /\ Len(errors) = 2
       => /\ pc = "done"
          /\ executes = 2
          /\ outcome = [calls |-> 1, error |-> "second", result |-> FALSE,
                        originalError |-> NoOriginal]

\* the first attempt and the retry both failed
C8_Witness == Len(errors) = 2 /\ executes = 2 /\ pc = "done"

\* C9: a read operation is executed a second time only if the first error
\* is retryable, retryReads is not false, the session is in no transaction
\* and the server selected for the retry has max wire version >= 6
C9_ReadRetryOnlyIf ==
  (hasAspect(operation, "READ_OPERATION") /\ executes >= 2)
  => /\ errors[1].retryable
     /\ options.retryReads # "false"
     /\ ~session.inTransaction
     /\ selected[2].maxWireVersion >= 6

\* a read operation was executed twice
C9_Witness == hasAspect(operation, "READ_OPERATION") /\ executes = 2

\* C10: a write operation is executed a second time only if the first error
\* has the RetryableWriteError label, retryWrites is true and the session
\* is in no transaction; otherwise the first error is returned after one
\* execute
C10_WriteRetryOnlyIf ==
  hasAspect(operation, "WRITE_OPERATION")
  => /\ executes >= 2
          => /\ errors[1].label
             /\ options.retryWrites = "true"
             /\ ~session.inTransaction
     /\ ( /\ pc = "done"
          /\ Len(errors) >= 1
          /\ ~errors[1].label \/ options.retryWrites # "true" \/ session.inTransaction )
          => /\ executes = 1
             /\ outcome = [calls |-> 1, error |-> "first", result |-> FALSE,
                        originalError |-> NoOriginal]

\* a write operation was executed twice
C10_Witness == hasAspect(operation, "WRITE_OPERATION") /\ executes = 2

\* C11: when executeOperation started an implicit session itself, that session
\* has been ended exactly once by the time the caller's callback has run or
\* the execution has thrown, and it is never ended more than once.
C11_ImplicitSessionEnded ==
  owner => /\ ended <= 1
           /\ outcome.calls >= 1 => ended = 1
           /\ pc = "thrown" => ended = 1

\* C12: a selectServer call that passes the session is answered at once with
\* the Server pinned to its transaction when the topology is sharded and a
\* Server is pinned: the callback runs once with that Server, nothing is
\* enqueued and the selector is not run. On a topology that is not sharded
\* nothing is pinned and the call goes through the selector: a throwing
\* selector fails it, an empty selection leaves it queued, and a Server it
\* gets is one the selector returned.
C12_PinnedServerBypass ==
  [][LET id == issued + 1
     IN (issued' = id /\ id \in DOMAIN callbacks' /\ callbacks'[id].session) =>
          IF description.type = "Sharded" /\ transaction.server # 0
          THEN /\ callbacks'[id].calls = 1
               /\ callbacks'[id].result = "server"
               /\ callbacks'[id].server = transaction.server
               /\ id \notin DOMAIN requests'
               /\ waitQueue' = waitQueue
               /\ transaction' = transaction
          ELSE description.type # "Sharded" =>
                 /\ transaction.server = 0 /\ transaction'.server = 0
                 /\ state # STATE_CLOSED =>
                      /\ SelectorThrows(called') => callbacks'[id].result = "selectorError"
                      /\ (~SelectorThrows(called') /\ Selected(called', description) = {}) =>
                           callbacks'[id].calls = 0 /\ id \in Range(waitQueue')
                      /\ callbacks'[id].result = "server" =>
                           \E a \in Selected(called', description) :
                             callbacks'[id].server = IF a \in DOMAIN servers
                                                     THEN servers[a] ELSE 0]_vars

\* a call with a throwing selector got the pinned Server from the bypass
C12_Witness ==
  \E r \in DOMAIN callbacks :
    /\ callbacks[r].session /\ called = "throws"
    /\ callbacks[r].calls = 1 /\ callbacks[r].result = "server"
    /\ transaction.server # 0 /\ callbacks[r].server = transaction.server
    /\ r \notin DOMAIN requests

\* C13: while the description of a connecting or connected topology carries
\* a compatibility error, no request is left pending in the wait queue and
\* no callback is invoked with a Server.
C13_CompatibilityErrorFailsSelection ==
  [][(description'.compatibilityError /\ state' \in {STATE_CONNECTING, STATE_CONNECTED}) =>
       /\ \A r \in Range(waitQueue') : requests'[r].cancelled
       /\ \A r \in DOMAIN callbacks' :
            callbacks'[r].calls > callsBefore(r) => callbacks'[r].result # "server"]_vars

\* the topologyVersion new is older than stored: same processId, smaller
\* counter
olderVersion(new, stored) ==
  /\ new # NoVersion /\ stored # NoVersion
  /\ new.processId = stored.processId
  /\ compareTopologyVersion(new, stored) < 0

\* C14: an update whose topologyVersion is older than the one stored for its
\* address is discarded, so the description stored for an address is never
\* replaced by one with an older topologyVersion.
C14_StaleUpdateDiscarded ==
  [][\A a \in DOMAIN description.servers \cap DOMAIN description'.servers :
       ~olderVersion(description'.servers[a].topologyVersion,
                     description.servers[a].topologyVersion)]_vars

\* C15: the timestamp of the cluster time the topology stores never
\* decreases.
C15_ClusterTimeNeverDecreases == [][clusterTime' >= clusterTime]_vars

C17_ClosedServerRejects ==
  [][(sEvent'.op \in {"command", "query", "getMore", "killCursors"}
       /\ sState \in {STATE_CLOSING, STATE_CLOSED}) =>
       /\ sEvent'.calls = 1
       /\ sEvent'.result = "server is closed"
       /\ ~sEvent'.checkout
       /\ UNCHANGED <<sDescription, sPool, sConns, sState, sMonitor>>]_vars

\* getMore was refused on a closing Server with operations still in flight
C17_Witness ==
  /\ sEvent.op = "getMore" /\ sEvent.result = "server is closed" /\ sEvent.calls = 1
  /\ sState = STATE_CLOSING
  /\ \E g \in DOMAIN sConns : sConns[g] > 0

\* C19 as stated: every network error an operation returns on a connection
\* that is not stale marks the Server Unknown, and the pool is cleared for
\* errors before the handshake and for network errors that are no timeouts.
C19_NetworkErrorMarksUnknown ==
  [][(sEvent'.op = "result" /\ ~sEvent'.stale
       /\ sEvent'.err \in {"network", "networkTimeout", "networkBeforeHandshake",
                           "networkTimeoutBeforeHandshake"}) =>
       /\ sEvent'.unknown /\ sDescription' = "Unknown"
       /\ sEvent'.err # "networkTimeout" =>
            sEvent'.cleared /\ sPool'.generation = sPool.generation + 1]_vars

\* C19 as amended: a network error an operation returns on a connection that
\* is not stale marks the Server Unknown and clears the pool when it is no
\* timeout or happened before the handshake completed; a network timeout
\* after the handshake leaves the description and the pool as they are.
C19_NetworkErrorHandling ==
  [][(sEvent'.op = "result" /\ ~sEvent'.stale
       /\ sEvent'.err \in {"network", "networkTimeout", "networkBeforeHandshake",
                           "networkTimeoutBeforeHandshake"}) =>
       IF sEvent'.err = "networkTimeout"
       THEN ~sEvent'.unknown /\ ~sEvent'.cleared /\ UNCHANGED <<sDescription, sPool>>
       ELSE /\ sEvent'.unknown /\ sDescription' = "Unknown"
            /\ sEvent'.cleared /\ sPool'.generation = sPool.generation + 1]_vars

\* a network timeout after the handshake left a known Server as it was
C19_Witness ==
  /\ sEvent.op = "result" /\ sEvent.err = "networkTimeout" /\ ~sEvent.stale
  /\ sDescription = "Standalone" /\ ~sEvent.unknown

\* C18: on a connecting or connected topology the addresses of the Server
\* map are the addresses of the description.
C18_ServerMapMatchesDescription ==
  state \in {STATE_CONNECTING, STATE_CONNECTED} =>
    DOMAIN servers = DOMAIN description.servers

\* C20: when the first attempt of a read fails with a network timeout and
\* retryable reads are enabled, the operation is executed at most twice and
\* the retry does not run on the Server of the first attempt when another
\* Server was eligible.
C20_RetryOnDifferentServer ==
  (/\ hasAspect(operation, "READ_OPERATION")
   /\ options.retryReads # "false"
   /\ retried = "timeout")
  => /\ executes <= 2
     /\ executes = 2 => /\ selected[2].maxWireVersion >= 6
                        /\ retryPick # "firstAmongOthers"

\* C21: when the first execute of a write ran with callbackWithRetry and
\* failed with an error labelled RetryableWriteError whose code is 20 and
\* whose errmsg mentions "Transaction numbers", the caller's callback has run
\* once with the "deployment does not support retryable writes" error that
\* carries the original error, and there was one server selection and one
\* execute only.
C21_LegacyErrorTranslated ==
  (/\ hasAspect(operation, "WRITE_OPERATION")
   /\ handler = "callbackWithRetry"
   /\ Len(errors) >= 1
   /\ errors[1].label
   /\ errors[1].code = MMAPv1_RETRY_WRITES_ERROR_CODE
   /\ errors[1].transactionNumbers)
  => /\ pc = "done"
     /\ outcome = [calls |-> 1, error |-> "retryableWritesUnsupported", result |-> FALSE,
                   originalError |-> errors[1]]
     /\ Len(selected) = 1
     /\ executes = 1

\* the caller got the translated error for a write that failed that way
C21_Witness ==
  /\ hasAspect(operation, "WRITE_OPERATION")
  /\ outcome.error = "retryableWritesUnsupported"
  /\ outcome.originalError.code = MMAPv1_RETRY_WRITES_ERROR_CODE
  /\ outcome.originalError.transactionNumbers

\* C22: when a write is about to be sent, or has been sent, a second time, the
\* transaction number of the session has been incremented: the increment is
\* made once, before the first send, and the resend uses the same number.
C22_IncrementedBeforeResend ==
  (hasAspect(operation, "WRITE_OPERATION") /\ (pc = "reselecting" \/ executes = 2))
  => session.txnNumber = 1

\* a write was sent a second time
C22_Witness ==
  /\ hasAspect(operation, "WRITE_OPERATION")
  /\ executes = 2
  /\ hasAspect(operation, "RETRYABLE")
  /\ session.txnNumber = 1

\* C23: a connection that checkOut returns, to its caller or to a blocked
\* caller that is woken, is checked out and has a generation that is not less
\* than the generation of the pool, whatever checkOut, checkIn and clear
\* calls came before.
C23_NoStaleConnectionReturned ==
  poolEvent.returned # 0
  => /\ connections[poolEvent.returned].state = "checkedOut"
     /\ connections[poolEvent.returned].generation >= connectionPool.generation
     /\ holds[poolEvent.served] = poolEvent.returned

\* a checkOut after a clear() that found an idle connection of an older
\* generation, closed it and returned another
C23_Witness ==
  /\ poolEvent.op = "checkOut"
  /\ poolEvent.returned # 0
  /\ connectionPool.generation > 0
  /\ \E k \in ConnIds : /\ connections[k].state = "closed"
                        /\ connections[k].generation < connectionPool.generation
                        /\ k < poolEvent.returned

\* C24: a checkIn of a connection whose generation is no longer the pool's
\* (clear() was called after its checkOut) closes it: it is not idle and no
\* caller holds it; and a closed connection stays closed and is never
\* returned by a later checkOut.
C24_ClearedConnectionClosedAtCheckIn ==
  [][\A k \in ConnIds :
       /\ ( /\ poolEvent'.op = "checkIn"
            /\ poolEvent'.conn = k
            /\ connections[k].generation # connectionPool.generation )
          => /\ connections'[k].state = "closed"
             /\ \A c \in Callers : holds'[c] # k
       /\ connections[k].state = "closed"
          => /\ connections'[k].state = "closed"
             /\ poolEvent'.returned # k
             /\ \A c \in Callers : holds'[c] # k]_vars

\* a connection was checked in after a clear() and closed
C24_Witness ==
  /\ poolEvent.op = "checkIn"
  /\ connections[poolEvent.conn].state = "closed"
  /\ connections[poolEvent.conn].generation < connectionPool.generation

\* C25: no connection is held by two callers, the checked-out connections
\* never exceed maxPoolSize, and blocked callers are served oldest first and
\* never overtaken by a new caller. With maxPoolSize 1, a checkOut while the
\* connection is held blocks, a blocked caller is served only by a checkIn,
\* and when the connection checked in is kept (its generation is the pool's
\* and it is healthy) the oldest blocked caller receives that connection.
C25_FairExclusiveCheckOut ==
  [][/\ \A c1, c2 \in Callers : (c1 # c2 /\ holds'[c1] # 0) => holds'[c1] # holds'[c2]
     /\ Cardinality({k \in ConnIds : connections'[k].state = "checkedOut"})
          <= connectionPool'.maxPoolSize
     /\ poolEvent'.served # 0
        => IF poolEvent'.served \in Range(poolWaitQueue)
           THEN poolEvent'.served = Head(poolWaitQueue)
           ELSE poolWaitQueue = <<>>
     /\ connectionPool.maxPoolSize = 1
        => /\ (poolEvent'.op = "checkOut" /\ \E c \in Callers : holds[c] # 0)
              => /\ poolEvent'.served = 0
                 /\ poolWaitQueue' = Append(poolWaitQueue, poolEvent'.caller)
           /\ (poolEvent'.served # 0 /\ poolEvent'.served \in Range(poolWaitQueue))
              => poolEvent'.op = "checkIn"
           /\ ( /\ poolEvent'.op = "checkIn"
                /\ poolWaitQueue # <<>>
                /\ connections'[poolEvent'.conn].state # "closed" )
              => /\ poolEvent'.returned = poolEvent'.conn
                 /\ holds'[Head(poolWaitQueue)] = poolEvent'.conn
                 /\ holds'[poolEvent'.caller] = 0]_vars

\* with maxPoolSize 1 and two callers blocked, the first one blocked got the
\* connection the holder checked in
C25_Witness ==
  /\ connectionPool.maxPoolSize = 1
  /\ poolEvent.op = "checkIn"
  /\ poolEvent.served # 0
  /\ poolEvent.returned = poolEvent.conn
  /\ holds[poolEvent.served] = poolEvent.conn
  /\ Len(poolWaitQueue) = 1

\* C26: the highest setVersion and electionId of the topology description
\* never decrease; a description stored as RSPrimary by an update carries a
\* setVersion and an electionId that are not lower than the highest seen
\* before; and a primary report with a lower one, for a tracked address, is
\* stored as Unknown and, when that address was not the stored primary,
\* leaves the topology type as it was.
C26_StalePrimaryDemoted ==
  [][incoming'.address # "none" =>
       LET addr == incoming'.address
           sd == incoming'.description
           lower == /\ sd.type = "RSPrimary"
                    /\ \/ sd.setVersion < description.maxSetVersion
                       \/ sd.electionId < description.maxElectionId
       IN /\ description'.maxSetVersion >= description.maxSetVersion
          /\ description'.maxElectionId >= description.maxElectionId
          /\ \A a \in DOMAIN description'.servers :
               ( /\ description'.servers[a].type = "RSPrimary"
                 /\ a \in DOMAIN description.servers => description.servers[a] # description'.servers[a] )
               => /\ description'.servers[a].setVersion >= description.maxSetVersion
                  /\ description'.servers[a].electionId >= description.maxElectionId
          /\ (lower /\ addr \in DOMAIN description.servers)
             => /\ description'.servers[addr].type = "Unknown"
                /\ description.servers[addr].type # "RSPrimary"
                   => description'.type = description.type]_vars

\* a primary was reported with a setVersion lower than the highest seen while
\* another address is the primary: the reporter is Unknown, the primary stays
C26_Witness ==
  /\ incoming.address # "none"
  /\ incoming.description.type = "RSPrimary"
  /\ incoming.description.setVersion < description.maxSetVersion
  /\ description.servers[incoming.address].type = "Unknown"
  /\ description.type = "ReplicaSetWithPrimary"
  /\ \E a \in DOMAIN description.servers :
       /\ a # incoming.address
       /\ description.servers[a].type = "RSPrimary"
       /\ description.servers[a].setVersion = description.maxSetVersion

\* C27: serverUpdateHandler called with a description for an address that
\* the topology description does not track leaves the topology as it is: its
\* description, server map, Servers, cluster time, state, wait queue, the
\* requests and the pinned Server are unchanged, and no callback is invoked.
C27_UntrackedAddressIgnored ==
  [][(incoming'.address # "none" /\ incoming'.address \notin DOMAIN description.servers)
     => /\ UNCHANGED <<description, servers, clusterTime, state, waitQueue, requests,
                       transaction>>
        /\ DOMAIN instances' = DOMAIN instances
        /\ \A r \in DOMAIN callbacks' : callbacks'[r].calls = callsBefore(r)]_vars

\* the handler was called for an address the description had dropped, with a
\* description that carries a cluster time and while a request is queued
C27_Witness ==
  /\ incoming.address # "none"
  /\ incoming.address \in DOMAIN servers
  /\ incoming.address \notin DOMAIN description.servers
  /\ incoming.description.type = "RSPrimary"
  /\ incoming.description.clusterTime > clusterTime
  /\ Len(waitQueue) > 0

\* C28: a step that replaces the topology description leaves no request in
\* the wait queue whose selector matches the new description: every queued
\* request was tried against it in that step.
C28_QueueRetriedOnNewDescription ==
  [][description' # description
     => \A r \in Range(waitQueue') :
          ~requests'[r].cancelled => Selected(requests'[r].selector, description') = {}]_vars

\* C29: a request that a pass over the wait queue completes without error
\* gets a Server whose address is one its selector returns for the topology
\* description of that moment; and a pass that leaves a request queued
\* schedules a requestCheck on every Server of the server map.
C29_ResolvedWithinSelection ==
  [][/\ \A r \in DOMAIN callbacks' :
          LET sel == IF r \in DOMAIN requests THEN requests[r].selector ELSE called'
              server == callbacks'[r].server
          IN (callbacks'[r].calls > callsBefore(r) /\ callbacks'[r].result = "server")
             => /\ server \in DOMAIN instances'
                /\ instances'[server].address \in Selected(sel, description')
     /\ (pass'.ran /\ Len(waitQueue') > 0) => pass'.checks = Range(servers')]_vars

\* C30: when an operation on a connection that is not stale returns a state
\* change error (not master, node recovering, node shutting down), the Server
\* is marked Unknown and a requestCheck is scheduled exactly when
\* compareTopologyVersion finds the description's topologyVersion older than
\* the error's; otherwise description and pool stay as they are. The pool is
\* cleared exactly when, in addition, the max wire version is <= 7 or the
\* error is a node-shutting-down error.
C30_StateChangeErrorHandled ==
  [][(sEvent'.op = "result" /\ ~sEvent'.stale
       /\ sEvent'.err \in {"stateChange", "nodeShuttingDown"}) =>
       LET older == compareTopologyVersion(sTopologyVersion, sEvent'.topologyVersion) < 0
           clears == older /\ (sEvent'.old \/ sEvent'.err = "nodeShuttingDown")
       IN /\ sEvent'.unknown = older
          /\ sEvent'.check = older
          /\ older => sDescription' = "Unknown"
          /\ ~older => UNCHANGED <<sDescription, sTopologyVersion, sPool>>
          /\ sEvent'.cleared = clears
          /\ sPool'.generation = IF clears THEN sPool.generation + 1 ELSE sPool.generation]_vars

\* a not-master error with a newer topologyVersion from a server of max wire
\* version above 7: marked Unknown, a check scheduled, the pool not cleared
C30_Witness ==
  /\ sEvent.op = "result" /\ sEvent.err = "stateChange" /\ ~sEvent.stale
  /\ sEvent.topologyVersion.counter = 2
  /\ sTopologyVersion = sEvent.topologyVersion
  /\ sDescription = "Unknown"
  /\ sEvent.unknown /\ sEvent.check /\ ~sEvent.cleared /\ ~sEvent.old

\* C31: a failed heartbeat clears the pool of the Server and publishes a
\* description of type Unknown that carries the error, whatever the type
\* published before; its topologyVersion is the error's when the error has
\* one and the topologyVersion published before otherwise.
C31_FailedHeartbeatResetsServer ==
  [][sEvent'.op = "heartbeatFailed" =>
       /\ sDescription' = "Unknown"
       /\ sEvent'.unknown /\ sEvent'.err # "none"
       /\ sEvent'.cleared /\ sPool'.generation = sPool.generation + 1
       /\ sTopologyVersion' = IF sEvent'.topologyVersion # NoVersion
                              THEN sEvent'.topologyVersion
                              ELSE sTopologyVersion]_vars

\* a heartbeat failed with an error that carries no topologyVersion after a
\* heartbeat had published one: the Unknown description keeps it
C31_Witness ==
  /\ sEvent.op = "heartbeatFailed" /\ sEvent.err = "network"
  /\ sEvent.topologyVersion = NoVersion
  /\ sDescription = "Unknown"
  /\ sTopologyVersion = [processId |-> "p", counter |-> 2]
  /\ sPool.generation = 1

\* ------------------------------------------------ server_description.ts
\* the ismaster replies: none, or any combination of the fields read
Replies ==
  {NoReply} \cup
  [present : {TRUE}, ok : {0, 1}, isreplicaset : BOOLEAN,
   msg : {"", "isdbgrid", "other"}, setName : {"", "rs"},
   hidden : BOOLEAN, ismaster : BOOLEAN, secondary : BOOLEAN, arbiterOnly : BOOLEAN]

\* ismaster is read before hidden
parseServerType_primaryFirst(ismaster) ==
  IF ~ismaster.present \/ ismaster.ok = 0 THEN "Unknown"
  ELSE IF ismaster.isreplicaset THEN "RSGhost"
  ELSE IF ismaster.msg # "" /\ ismaster.msg = "isdbgrid" THEN "Mongos"
  ELSE IF ismaster.setName # ""
       THEN IF ismaster.ismaster THEN "RSPrimary"
            ELSE IF ismaster.hidden THEN "RSOther"
            ELSE IF ismaster.secondary THEN "RSSecondary"
            ELSE IF ismaster.arbiterOnly THEN "RSArbiter"
            ELSE "RSOther"
  ELSE "Standalone"

\* parseServerType(ismaster)
parseServerType(ismaster) ==
  IF ~ismaster.present \/ ismaster.ok = 0 THEN "Unknown"
  ELSE IF ismaster.isreplicaset THEN "RSGhost"
  ELSE IF ismaster.msg # "" /\ ismaster.msg = "isdbgrid" THEN "Mongos"
  ELSE IF ismaster.setName # ""
       THEN IF ismaster.hidden THEN "RSOther"
            ELSE IF ismaster.ismaster THEN "RSPrimary"
            ELSE IF ismaster.secondary THEN "RSSecondary"
            ELSE IF ismaster.arbiterOnly THEN "RSArbiter"
            ELSE "RSOther"
  ELSE "Standalone"

\* tagsStrictEqual(tags, tags2): as many keys, and every key of tags has the
\* same value in tags2
tagsStrictEqual(tags, tags2) ==
  /\ Cardinality(DOMAIN tags) = Cardinality(DOMAIN tags2)
  /\ \A key \in DOMAIN tags : key \in DOMAIN tags2 /\ tags2[key] = tags[key]

\* arrayStrictEqual(arr, arr2): the same length and the same element at every
\* index
arrayStrictEqual(arr, arr2) ==
  /\ Len(arr) = Len(arr2)
  /\ \A idx \in 1..Len(arr) : arr[idx] = arr2[idx]

\* errorStrictEqual(lhs, rhs): both undefined, or errors of the same class
\* and message
errorStrictEqual(l, r) == l = r

\* ServerDescription.equals(other), this being the receiver
equals(this, other) ==
  LET topologyVersionsEqual ==
        \/ this.topologyVersion = other.topologyVersion
        \/ compareTopologyVersion(this.topologyVersion, other.topologyVersion) = 0
      electionIdsEqual ==
        IF this.electionId # 0 /\ other.electionId # 0
        THEN other.electionId # 0 /\ this.electionId = other.electionId
        ELSE this.electionId = other.electionId
  IN /\ errorStrictEqual(this.error, other.error)
     /\ this.type = other.type
     /\ this.minWireVersion = other.minWireVersion
     /\ arrayStrictEqual(this.hosts, other.hosts)
     /\ tagsStrictEqual(this.tags, other.tags)
     /\ this.setName = other.setName
     /\ this.setVersion = other.setVersion
     /\ electionIdsEqual
     /\ this.primary = other.primary
     /\ this.logicalSessionTimeoutMinutes = other.logicalSessionTimeoutMinutes
     /\ topologyVersionsEqual

\* the descriptions compared: the primary, the primary with one field
\* changed, and the primary with every timestamp and the round trip time
\* changed
Descriptions ==
  {PrimaryDescription,
   [PrimaryDescription EXCEPT !.type = "RSSecondary"],
   [PrimaryDescription EXCEPT !.hosts = <<"a">>],
   [PrimaryDescription EXCEPT !.hosts = <<"b", "a">>],
   [PrimaryDescription EXCEPT !.passives = <<"c">>],
   [PrimaryDescription EXCEPT !.arbiters = <<"d">>],
   [PrimaryDescription EXCEPT !.tags = [k \in {"dc"} |-> "west"]],
   [PrimaryDescription EXCEPT !.tags = [k \in {"dc", "rack"} |-> "east"]],
   [PrimaryDescription EXCEPT !.error = "network"],
   [PrimaryDescription EXCEPT !.topologyVersion = NoVersion],
   [PrimaryDescription EXCEPT !.topologyVersion = [processId |-> "p", counter |-> 2]],
   [PrimaryDescription EXCEPT !.topologyVersion = [processId |-> "q", counter |-> 1]],
   [PrimaryDescription EXCEPT !.minWireVersion = 0],
   [PrimaryDescription EXCEPT !.maxWireVersion = 8],
   [PrimaryDescription EXCEPT !.primary = "b"],
   [PrimaryDescription EXCEPT !.setName = "rs2"],
   [PrimaryDescription EXCEPT !.setVersion = 2],
   [PrimaryDescription EXCEPT !.electionId = 2],
   [PrimaryDescription EXCEPT !.electionId = 0],
   [PrimaryDescription EXCEPT !.logicalSessionTimeoutMinutes = 0],
   [PrimaryDescription EXCEPT !.roundTripTime = 2],
   [PrimaryDescription EXCEPT !.lastUpdateTime = 2],
   [PrimaryDescription EXCEPT !.lastWriteDate = 2],
   [PrimaryDescription EXCEPT !.roundTripTime = 2, !.lastUpdateTime = 2, !.lastWriteDate = 2]}

\* the calls: parseServerType of a reply, equals of two descriptions,
\* compareTopologyVersion of two topology versions
Probes ==
  {[NoProbe EXCEPT !.fn = "parseServerType", !.reply = r] : r \in Replies}
  \cup {[NoProbe EXCEPT !.fn = "equals", !.lhs = a, !.rhs = b] :
          a \in Descriptions, b \in Descriptions}
  \cup {[NoProbe EXCEPT !.fn = "compareTopologyVersion", !.ltv = a, !.rtv = b] :
          a \in TopologyVersions, b \in TopologyVersions}

\* a call of one of the functions, its arguments given
InitDescription ==
  /\ probe \in Probes
  /\ credentials = FALSE
  /\ TopoIdle
  /\ ExecIdle
  /\ ServerNew
  /\ PoolIdle

\* parseServerType returns
parseServerTypeCalled ==
  /\ probe.fn = "parseServerType" /\ ~probe.done
  /\ probe' = [probe EXCEPT !.done = TRUE, !.type = parseServerType(probe.reply)]
  /\ UNCHANGED <<topoVars, execVars, srvVars, poolVars>>

\* lhs.equals(rhs) returns
equalsCalled ==
  /\ probe.fn = "equals" /\ ~probe.done
  /\ probe' = [probe EXCEPT !.done = TRUE, !.equal = equals(probe.lhs, probe.rhs)]
  /\ UNCHANGED <<topoVars, execVars, srvVars, poolVars>>

\* compareTopologyVersion returns for the two versions in either order
compareTopologyVersionCalled ==
  /\ probe.fn = "compareTopologyVersion" /\ ~probe.done
  /\ probe' = [probe EXCEPT !.done = TRUE,
                            !.order = compareTopologyVersion(probe.ltv, probe.rtv),
                            !.reversed = compareTopologyVersion(probe.rtv, probe.ltv)]
  /\ UNCHANGED <<topoVars, execVars, srvVars, poolVars>>

NextDescription ==
  \/ parseServerTypeCalled
  \/ equalsCalled
  \/ compareTopologyVersionCalled

\* the functions of server_description.ts applied to their arguments
SpecDescription == InitDescription /\ [][NextDescription]_vars

\* C32: parseServerType returns Unknown for a missing or not-ok reply; else
\* RSGhost with isreplicaset; else Mongos when msg is 'isdbgrid'; else with a
\* setName RSOther if hidden, RSPrimary if ismaster, RSSecondary if
\* secondary, RSArbiter if arbiterOnly and RSOther otherwise; else Standalone.
C32_ParseServerTypeDecisionList ==
  (probe.fn = "parseServerType" /\ probe.done) =>
    LET r == probe.reply
        t == probe.type
    IN /\ (~r.present \/ r.ok = 0) <=> t = "Unknown"
       /\ (r.present /\ r.ok = 1) =>
            /\ r.isreplicaset <=> t = "RSGhost"
            /\ (~r.isreplicaset /\ r.msg = "isdbgrid") <=> t = "Mongos"
            /\ (~r.isreplicaset /\ r.msg # "isdbgrid" /\ r.setName = "") <=> t = "Standalone"
            /\ (~r.isreplicaset /\ r.msg # "isdbgrid" /\ r.setName # "") =>
                 /\ t \in {"RSOther", "RSPrimary", "RSSecondary", "RSArbiter"}
                 /\ t = "RSPrimary" <=> (~r.hidden /\ r.ismaster)
                 /\ t = "RSSecondary" <=> (~r.hidden /\ ~r.ismaster /\ r.secondary)
                 /\ t = "RSArbiter" <=>
                      (~r.hidden /\ ~r.ismaster /\ ~r.secondary /\ r.arbiterOnly)

\* the reply of a hidden member that reports ismaster was parsed: RSOther
C32_Witness ==
  /\ probe.fn = "parseServerType" /\ probe.done
  /\ probe.reply.ok = 1 /\ ~probe.reply.isreplicaset /\ probe.reply.setName = "rs"
  /\ probe.reply.hidden /\ probe.reply.ismaster
  /\ probe.type = "RSOther"

\* C33: equals returns true exactly when the two descriptions agree on type,
\* min and max wire version, hosts, passives, arbiters, tags, setName,
\* setVersion, electionId, primary, logicalSessionTimeoutMinutes,
\* topologyVersion and error; lastUpdateTime, lastWriteDate and
\* roundTripTime are not compared.
C33_EqualsIsStructural ==
  (probe.fn = "equals" /\ probe.done) =>
    LET a == probe.lhs
        b == probe.rhs
    IN probe.equal =
         /\ a.type = b.type
         /\ a.minWireVersion = b.minWireVersion
         /\ a.maxWireVersion = b.maxWireVersion
         /\ a.hosts = b.hosts
         /\ a.passives = b.passives
         /\ a.arbiters = b.arbiters
         /\ a.tags = b.tags
         /\ a.setName = b.setName
         /\ a.setVersion = b.setVersion
         /\ a.electionId = b.electionId
         /\ a.primary = b.primary
         /\ a.logicalSessionTimeoutMinutes = b.logicalSessionTimeoutMinutes
         /\ a.topologyVersion = b.topologyVersion
         /\ a.error = b.error

\* C34: compareTopologyVersion is negative when lhs is older than rhs,
\* positive when it is newer and 0 when they are equivalent: for two defined
\* versions the results in the two orders have opposite signs, and a version
\* compared with itself gives 0.
C34_CompareIsAntisymmetric ==
  (probe.fn = "compareTopologyVersion" /\ probe.done
     /\ probe.ltv # NoVersion /\ probe.rtv # NoVersion) =>
    /\ probe.order < 0 <=> probe.reversed > 0
    /\ probe.order > 0 <=> probe.reversed < 0
    /\ probe.order = 0 <=> probe.reversed = 0
    /\ probe.ltv = probe.rtv => probe.order = 0

\* C35: a selectServer call on a closed topology completes every queued
\* request at once with the 'Topology is closed' error and leaves the wait
\* queue empty; and while the topology is closing or closed (close() has
\* begun and connect() has not been called again), no request is completed
\* with a Server.
C35_ClosedTopologySelectsNothing ==
  [][/\ (state = STATE_CLOSED /\ state' = STATE_CLOSED /\ issued' = issued + 1) =>
          /\ waitQueue' = <<>>
          /\ callbacks'[issued'].calls = 1
          /\ callbacks'[issued'].result = "TopologyIsClosed"
          /\ \A r \in Range(waitQueue) :
               ~requests[r].cancelled =>
                  /\ r \in DOMAIN callbacks'
                  /\ callbacks'[r].calls = callsBefore(r) + 1
                  /\ callbacks'[r].result = "TopologyIsClosed"
     /\ (state \in {STATE_CLOSING, STATE_CLOSED}
           /\ state' \in {STATE_CLOSING, STATE_CLOSED}) =>
          \A r \in DOMAIN callbacks' :
            ~(callbacks'[r].calls > callsBefore(r) /\ callbacks'[r].result = "server")]_vars

\* C36: when the first attempt of a retry-armed operation failed with a
\* retryable error and the Server selected for the retry does not support
\* retryable reads or writes, the caller's callback gets the error of the
\* first attempt; and no call is completed with neither an error nor a
\* result.
C36_RefusedRetryDeliversOriginalError ==
  /\ (pc = "done" /\ outcome.calls > 0 /\ Len(errors) = 1 /\ Len(selected) = 2
        /\ executes = 1) => outcome.error = "first"
  /\ outcome.calls > 0 => (outcome.error # "none" \/ outcome.result)

\* C37: an error returned on a connection whose generation is not the
\* pool's has no effect on the Server: it is not marked Unknown, the pool is
\* not cleared, no requestCheck is scheduled and no label is added to the
\* error; the caller's callback still gets the error.
C37_StaleConnectionErrorIgnored ==
  [][(sEvent'.op = "result" /\ sEvent'.stale /\ sEvent'.err # "none") =>
       /\ ~sEvent'.unknown /\ ~sEvent'.cleared /\ ~sEvent'.check /\ ~sEvent'.labelled
       /\ UNCHANGED <<sDescription, sTopologyVersion, sPool, sState, sMonitor>>
       /\ sEvent'.calls = 1 /\ sEvent'.result = sEvent'.err]_vars

\* a network error came back on a connection of generation 0 after the pool
\* was cleared, under the conditions of the label: the Server stays as it is
C37_Witness ==
  /\ sEvent.op = "result" /\ sEvent.stale /\ sEvent.err = "network" /\ sEvent.eligible
  /\ sDescription = "Standalone" /\ sPool.generation = 1
  /\ ~sEvent.unknown /\ ~sEvent.cleared /\ ~sEvent.labelled
  /\ sEvent.calls = 1 /\ sEvent.result = "network"

\* C38: whatever the order of connect(), close() and the completions they
\* wait for (the selection of connect(), its ping, the end of the session
\* pool, the destruction of the Servers), stateTransition is only called for
\* a transition of the table; so no topology is asked to become connected
\* once close() has begun.
C38_OnlyLegalTransitions ==
  \A t \in attempted : t.to \in stateTable[t.from]

\* C39: after a pass of processWaitQueue over the members of the wait queue
\* the queue holds exactly the members that are not cancelled and whose
\* selector returned nothing, in the order they had before the pass; a
\* cancelled member is dropped and its callback is not invoked again.
C39_PassKeepsQueueOrder ==
  [][(pass'.ran /\ ~(state = STATE_CLOSED /\ state' = STATE_CLOSED)) =>
       LET before == IF issued' = issued + 1 THEN Append(waitQueue, issued')
                     ELSE waitQueue
           cancelled(r) == r \in DOMAIN requests /\ requests[r].cancelled
           selector(r) == IF r \in DOMAIN requests THEN requests[r].selector ELSE called'
           unmatched(r) == /\ ~cancelled(r)
                           /\ ~SelectorThrows(selector(r))
                           /\ Selected(selector(r), description') = {}
       IN /\ waitQueue' = SelectSeq(before, unmatched)
          /\ \A r \in Range(before) :
               cancelled(r) =>
                 /\ r \notin Range(waitQueue')
                 /\ r \in DOMAIN callbacks' => callbacks'[r].calls = callsBefore(r)]_vars

\* a pass started by a heartbeat has left requests 1 and 3 queued in their
\* order and has dropped request 2
C39_Witness ==
  /\ pass.ran /\ called = NoCall /\ state # STATE_CLOSED
  /\ issued = 3
  /\ waitQueue = <<1, 3>>
  /\ 2 \notin DOMAIN requests
  /\ \A r \in {1, 3} : ~requests[r].cancelled

\* C40: within one call the transaction number of the session is incremented
\* at most once, by the selectServer callback before the first execute, and
\* only for a retryable write with a session, retryWrites true, no
\* transaction in progress and a Server that supports retryable writes; it
\* does not change between the first attempt and its retry, and reads and
\* operations that are not retryable never change it.
C40_TransactionNumberOncePerCall ==
  [][/\ session'.txnNumber \in {session.txnNumber, session.txnNumber + 1}
     /\ session'.txnNumber <= 1
     /\ executes >= 1 => session'.txnNumber = session.txnNumber
     /\ session'.txnNumber # session.txnNumber =>
          /\ pc = "selecting" /\ executes = 0 /\ executes' = 1
          /\ hasAspect(operation, "WRITE_OPERATION")
          /\ hasAspect(operation, "RETRYABLE")
          /\ operation.canRetryWrite
          /\ session.present /\ ~session.inTransaction
          /\ options.retryWrites = "true"
          /\ selected'[1].maxWireVersion >= 6
          /\ selected'[1].logicalSessionTimeoutMinutes # 0
          /\ selected'[1].type # "Standalone"]_vars

\* a retryable write came back after its retry: both attempts ran under
\* transaction number 1
C40_Witness ==
  /\ pc = "done" /\ executes = 2 /\ Len(errors) = 1
  /\ hasAspect(operation, "WRITE_OPERATION") /\ operation.canRetryWrite
  /\ session.present /\ session.txnNumber = 1
  /\ outcome.calls = 1 /\ outcome.result

====
